---- MODULE Spec2Model ----
(***************************************************************************)
(* State-machine model of the btc-staker lifecycle engine                  *)
(* (src/staker/stakerapp.go): the StakerApp event loop handleStaking, the  *)
(* startup reconciler checkTransactionsStatus, the helper goroutines that  *)
(* wait for Bitcoin confirmations, and the user calls StakeFunds,          *)
(* WatchStaking, UnbondStaking and SpendStake.  The tracked transaction    *)
(* store (package stakerdb), the coordinator sender loop                   *)
(* handleSentToBabylon and the signature poller are not part of the        *)
(* sources at hand and are modelled from the specification.                *)
(***************************************************************************)
EXTENDS Integers, Sequences, FiniteSets, TLC

\* ---------------------------------------------------------------- bounds
\* keys of the store
NumTx == 2
\* staking transactions the users create or watch in a run that starts empty
NumStaked == 1
NumCallers == 1
MaxHeight == 11
MaxLag == 2
\* calls of Start, and of Stop, made on one StakerApp
MaxCalls == 3
\* coordinator parameter k (params.ConfirmationTimeBlocks) used in the model
ConfirmationTimeBlocks == 1

\* ------------------------------------------------------- program constants
maxNumPendingDelegations == 100
SpendStakeTxConfirmations == 3
UnbondingTxConfirmations == 6
MinFeePerKb == 1000
minSlashingFee == 1000

\* walletcontroller.TxStatus, folded with the inclusion height: a positive
\* value is TxInChain at that block height.
TxNotFound == -1
TxInMemPool == 0

Hashes == 1..NumTx
Staked == 1..NumStaked
Callers == 1..NumCallers

\* proto.TransactionState; ABSENT stands for "no record under this key".
ABSENT == "ABSENT"
SENT_TO_BTC == "SENT_TO_BTC"
CONFIRMED_ON_BTC == "CONFIRMED_ON_BTC"
SENT_TO_BABYLON == "SENT_TO_BABYLON"
UNBONDING_STARTED == "UNBONDING_STARTED"
UNBONDING_SIGNATURES_RECEIVED == "UNBONDING_SIGNATURES_RECEIVED"
UNBONDING_CONFIRMED_ON_BTC == "UNBONDING_CONFIRMED_ON_BTC"
SPENT_ON_BTC == "SPENT_ON_BTC"

TransactionState ==
    {SENT_TO_BTC, CONFIRMED_ON_BTC, SENT_TO_BABYLON, UNBONDING_STARTED,
     UNBONDING_SIGNATURES_RECEIVED, UNBONDING_CONFIRMED_ON_BTC, SPENT_ON_BTC}

VARIABLES
    store,   \* persistent: txTracker, one record per staking tx hash
    btc,     \* external: Bitcoin chain/mempool status of the three txs of each H
    height,  \* external: height of the Bitcoin best block
    coord,   \* external: coordinator (Babylon) view of each delegation
    app,     \* process: StakerApp start/stop/quit, long-running loops, best height cell
    rec,     \* process: position of checkTransactionsStatus inside Start
    tasks,   \* process: helper goroutines, counted per (kind, pc, H)
    chans,   \* process: sendDelegationRequestChan and the sender loop's position
    calls,   \* process: user calls in flight (StakeFunds, WatchStaking, UnbondStaking)
    ghost    \* history: key dumps, broadcasts, spend confirmations still awaited,
             \* spend waiters that timed out

vars == <<store, btc, height, coord, app, rec, tasks, chans, calls, ghost>>

\* ------------------------------------------------------------------ store
NoRecord == [state |-> ABSENT, watched |-> FALSE, incl |-> 0, unb |-> "none", unbIncl |-> 0]

\* stakerdb.TrackedTransactionStore.AddTransaction / AddWatchedTransaction:
\* atomic insert, DuplicateKey when a record exists; initial state SENT_TO_BTC.
AddOk(s, h) == s[h].state = ABSENT

AddTransaction(s, h) ==
    [s EXCEPT ![h] = [NoRecord EXCEPT !.state = SENT_TO_BTC, !.watched = FALSE]]

AddWatchedTransaction(s, h) ==
    [s EXCEPT ![h] = [NoRecord EXCEPT !.state = SENT_TO_BTC, !.watched = TRUE]]

\* Typed transitions: each validates the current state (InvalidStateTransition
\* otherwise) and then writes the new state and its payload.
SetTxConfirmedOk(s, h) == s[h].state = SENT_TO_BTC

SetTxConfirmed(s, h, blockHeight) ==
    [s EXCEPT ![h].state = CONFIRMED_ON_BTC, ![h].incl = blockHeight]

SetTxSentToBabylonOk(s, h) == s[h].state = CONFIRMED_ON_BTC

\* SetTxSentToBabylon moving every record in CONFIRMED_ON_BTC, whatever its key.
SetTxSentToBabylon_everyKey(s, h) ==
    [g \in DOMAIN s |-> IF s[g].state = CONFIRMED_ON_BTC
                        THEN [s[g] EXCEPT !.state = SENT_TO_BABYLON] ELSE s[g]]

SetTxSentToBabylon(s, h) == [s EXCEPT ![h].state = SENT_TO_BABYLON]

SetTxUnbondingStartedOk(s, h) == s[h].state = SENT_TO_BABYLON

SetTxUnbondingStarted(s, h, unbondingData) ==
    [s EXCEPT ![h].state = UNBONDING_STARTED, ![h].unb = unbondingData]

SetTxUnbondingSignaturesReceivedOk(s, h) == s[h].state = UNBONDING_STARTED

SetTxUnbondingSignaturesReceived(s, h) ==
    [s EXCEPT ![h].state = UNBONDING_SIGNATURES_RECEIVED]

SetTxUnbondingConfirmedOnBtcOk(s, h) == s[h].state = UNBONDING_SIGNATURES_RECEIVED

SetTxUnbondingConfirmedOnBtc(s, h, blockHeight) ==
    [s EXCEPT ![h].state = UNBONDING_CONFIRMED_ON_BTC, ![h].unbIncl = blockHeight]

SetTxSpentOnBtcOk(s, h) == s[h].state \in {SENT_TO_BABYLON, UNBONDING_CONFIRMED_ON_BTC}

SetTxSpentOnBtc(s, h) == [s EXCEPT ![h].state = SPENT_ON_BTC]

\* ------------------------------------------------------- helper goroutines
\* A helper goroutine is identified by <<kind, pc, H>>; tasks counts the
\* goroutines at each position.  kind "stakeWait" is waitForStakingTxConfirmation,
\* "spendWait" is waitForSpendConfirmation, "sigPoll" is
\* checkForUnbondingTxSignaturesOnBabylon, "unbond" is
\* sendUnbondingTxToBtcAndWaitForConfirmation / waitForUnbondingTxConfirmationWithWg.
TaskPcs ==
    {<<"stakeWait", "wait">>, <<"stakeWait", "send">>,
     <<"spendWait", "wait">>, <<"spendWait", "send">>,
     <<"sigPoll", "poll">>, <<"sigPoll", "send">>,
     <<"unbond", "bcast">>, <<"unbond", "reg">>, <<"unbond", "wait">>, <<"unbond", "send">>}

TaskIds == {<<kp[1], kp[2], h>> : kp \in TaskPcs, h \in Hashes}

Spawn(T, t) == [T EXCEPT ![t] = @ + 1]

Exit(T, t) == [T EXCEPT ![t] = @ - 1]

Move(T, from, to) == [T EXCEPT ![from] = @ - 1, ![to] = @ + 1]

\* The goroutines that wait on a notifier.ConfirmationEvent, and the count
\* of the events of each that the notifier holds: tasks[<<k, "ntfn", h>>].
NtfnKinds == {"stakeWait", "spendWait", "unbond"}

NtfnIds == {<<k, "ntfn", h>> : k \in NtfnKinds, h \in Hashes}

\* The height hint of the latest registration of each kind and record,
\* tasks[<<k, "hint", h>>], kept in the runs that start with a place for it.
HintIds == {<<k, "hint", h>> : k \in NtfnKinds, h \in Hashes}

\* app.notifier.RegisterConfirmationsNtfn(txid, pkScript, numConfs, heightHint)
\* returning a ConfirmationEvent.
RegisterConfirmationsNtfn(T, k, h, heightHint) ==
    IF <<k, "hint", h>> \in DOMAIN T
    THEN [T EXCEPT ![<<k, "ntfn", h>>] = @ + 1, ![<<k, "hint", h>>] = heightHint]
    ELSE [T EXCEPT ![<<k, "ntfn", h>>] = @ + 1]

\* ev.Cancel() on a ConfirmationEvent.
Cancel(T, k, h) == [T EXCEPT ![<<k, "ntfn", h>>] = @ - 1]

\* Goroutines registered with app.wg (wg.Add before the go statement).
WgKinds == {"sigPoll", "unbond"}

NoWgTask == \A t \in TaskIds : t[1] \in WgKinds => tasks[t] = 0

NoTask == \A t \in TaskIds : tasks[t] = 0

\* --------------------------------------------------------------- user calls
IdleCall == [pc |-> "idle", kind |-> "none", h |-> 0, nrep |-> 0, rep |-> "none", res |-> "none"]

\* ------------------------------------------------------------------- Init
NewApp ==
    [start |-> "idle", stop |-> "idle", quit |-> FALSE, dead |-> FALSE, fatal |-> "none",
     engine |-> "off", tipLoop |-> "off", best |-> 0,
     \* history of this process: calls of Start and of Stop, runs of the body
     \* of Start, spawns of the loops (with the reconciler), closes of quit
     nStart |-> 0, nStop |-> 0, started |-> 0, spawned |-> 0, closed |-> 0]

NewRec == [pc |-> "off", snap |-> [h \in Hashes |-> ABSENT], todo |-> {}, cur |-> 0]

\* held: the request the engine is sending while sendDelegationRequestChan is full
NewChans ==
    [delQ |-> <<>>, held |-> <<>>, sender |-> [pc |-> "off", h |-> 0, ok |-> TRUE, c |-> 0]]

NewTasks == [t \in TaskIds \cup NtfnIds |-> 0]

\* no goroutine and no registration, with a place for the height hints
NewTasksHints == [t \in TaskIds \cup NtfnIds \cup HintIds |-> 0]

NewCalls == [c \in Callers |-> IdleCall]

Init ==
    /\ store = [h \in Hashes |-> NoRecord]
    /\ btc = [h \in Hashes |-> [stk |-> TxNotFound, unb |-> TxNotFound, spd |-> TxNotFound]]
    /\ height = 0
    /\ coord = [h \in Hashes |-> [del |-> FALSE, undel |-> "none", sigs |-> FALSE]]
    /\ app = NewApp
    /\ rec = NewRec
    /\ tasks = NewTasks
    /\ chans = NewChans
    /\ calls = NewCalls
    /\ ghost = [dumped |-> {}, bcast |-> {}, spendDue |-> {}, timedOut |-> {}]

\* ------------------------------------------------------------ environment
\* Confirmations the notifier counts for a transaction included at height i.
Confs(i) == IF i > 0 THEN height - i + 1 ELSE 0

\* Some transaction still waits for inclusion or for more confirmations.
ChainBusy ==
    \E h \in Hashes :
        \/ btc[h].stk = TxInMemPool \/ btc[h].unb = TxInMemPool \/ btc[h].spd = TxInMemPool
        \/ (btc[h].stk > 0 /\ Confs(btc[h].stk) < ConfirmationTimeBlocks + 1)
        \/ (btc[h].unb > 0 /\ Confs(btc[h].unb) < UnbondingTxConfirmations)
        \/ (btc[h].spd > 0 /\ Confs(btc[h].spd) < SpendStakeTxConfirmations)

Include(status) == IF status = TxInMemPool THEN height + 1 ELSE status

\* A new Bitcoin block: every transaction of the mempool is included in it.
MineBlock ==
    /\ height < MaxHeight
    /\ ChainBusy
    /\ app.tipLoop = "run" => height - app.best < MaxLag
    /\ height' = height + 1
    /\ btc' = [h \in Hashes |->
                 [stk |-> Include(btc[h].stk), unb |-> Include(btc[h].unb),
                  spd |-> Include(btc[h].spd)]]
    /\ UNCHANGED <<store, coord, app, rec, tasks, chans, calls, ghost>>

\* The staking transaction of a watched delegation is built and broadcast
\* outside the daemon.
ExternalBroadcast(h) ==
    /\ btc[h].stk = TxNotFound
    /\ h \notin ghost.bcast
    /\ \A c \in Callers : ~(calls[c].kind = "stake" /\ calls[c].h = h)
    /\ store[h].state = ABSENT \/ store[h].watched
    /\ btc' = [btc EXCEPT ![h].stk = TxInMemPool]
    /\ UNCHANGED <<store, height, coord, app, rec, tasks, chans, calls, ghost>>

\* The holder of a watched stake asks the coordinator to undelegate by its
\* own means.
ExternalUndelegate(h) ==
    /\ store[h].watched
    /\ coord[h].del
    /\ coord[h].undel = "none"
    /\ coord' = [coord EXCEPT ![h].undel = "x"]
    /\ UNCHANGED <<store, btc, height, app, rec, tasks, chans, calls, ghost>>

\* Jury and validator add their unbonding signatures on the coordinator.
CoordinatorSigns(h) ==
    /\ coord[h].undel # "none"
    /\ ~coord[h].sigs
    /\ coord' = [coord EXCEPT ![h].sigs = TRUE]
    /\ UNCHANGED <<store, btc, height, app, rec, tasks, chans, calls, ghost>>

\* The process ends (crash, kill, or exit after Stop) and a new one is
\* constructed over the same database: NewStakerAppFromDeps.
Restart ==
    /\ app.start # "idle"
    /\ app' = NewApp
    /\ rec' = NewRec
    /\ tasks' = NewTasks
    /\ chans' = NewChans
    /\ calls' = NewCalls
    /\ UNCHANGED <<store, btc, height, coord, ghost>>

\* ------------------------------------------------------------ Start / Stop
Alive == ~app.dead

\* Start run by every call: what the first half would do without startOnce.
Start_begin_everyCall ==
    /\ Alive
    /\ app.nStart < MaxCalls
    /\ app' = [app EXCEPT !.start = "tip", !.nStart = @ + 1, !.started = @ + 1]
    /\ UNCHANGED <<store, btc, height, coord, rec, tasks, chans, calls, ghost>>

\* Start, first half: startOnce, notifier.Start, RegisterBlockEpochNtfn.
Start_begin ==
    /\ Alive
    /\ app.nStart < MaxCalls
    /\ app.start = "idle"
    /\ app' = [app EXCEPT !.start = "tip", !.nStart = @ + 1, !.started = @ + 1]
    /\ UNCHANGED <<store, btc, height, coord, rec, tasks, chans, calls, ghost>>

\* Start called again: startOnce.Do does not run the function a second time.
Start_again ==
    /\ Alive
    /\ app.nStart < MaxCalls
    /\ app.start # "idle"
    /\ app' = [app EXCEPT !.nStart = @ + 1]
    /\ UNCHANGED <<store, btc, height, coord, rec, tasks, chans, calls, ghost>>

\* Start, the select on the first block epoch: the tip is stored, the three
\* loops are spawned and checkTransactionsStatus begins.
Start_tip ==
    /\ Alive
    /\ app.start = "tip"
    /\ app' = [app EXCEPT !.start = "rec", !.best = height, !.engine = "run", !.tipLoop = "run",
                          !.spawned = @ + 1]
    /\ chans' = [chans EXCEPT !.sender.pc = "idle"]
    /\ rec' = [rec EXCEPT !.pc = "scan"]
    /\ UNCHANGED <<store, btc, height, coord, tasks, calls, ghost>>

\* Start, the select's quit case.
Start_quit ==
    /\ Alive
    /\ app.start = "tip"
    /\ app.quit
    /\ app' = [app EXCEPT !.start = "err"]
    /\ UNCHANGED <<store, btc, height, coord, rec, tasks, chans, calls, ghost>>

\* Stop, first half: stopOnce, close(quit).
Stop_begin ==
    /\ Alive
    /\ app.nStop < MaxCalls
    /\ app.stop = "idle"
    /\ app' = [app EXCEPT !.stop = "wait", !.quit = TRUE, !.nStop = @ + 1, !.closed = @ + 1]
    /\ UNCHANGED <<store, btc, height, coord, rec, tasks, chans, calls, ghost>>

\* Stop called again: stopOnce.Do does not run the function a second time.
Stop_again ==
    /\ Alive
    /\ app.nStop < MaxCalls
    /\ app.stop # "idle"
    /\ app' = [app EXCEPT !.nStop = @ + 1]
    /\ UNCHANGED <<store, btc, height, coord, rec, tasks, chans, calls, ghost>>

\* Stop, second half: wg.Wait returns once the three loops and every helper
\* added to the wait group are done; then notifier.Stop.
Stop_return ==
    /\ Alive
    /\ app.stop = "wait"
    /\ app.engine # "run" /\ app.tipLoop # "run"
    /\ chans.sender.pc \in {"off", "exit"}
    /\ NoWgTask
    /\ app' = [app EXCEPT !.stop = "done"]
    /\ UNCHANGED <<store, btc, height, coord, rec, tasks, chans, calls, ghost>>

\* handleNewBlocks: store the height of each new block epoch.
handleNewBlocks ==
    /\ Alive
    /\ app.tipLoop = "run"
    /\ app.best < height
    /\ app' = [app EXCEPT !.best = @ + 1]
    /\ UNCHANGED <<store, btc, height, coord, rec, tasks, chans, calls, ghost>>

handleNewBlocks_quit ==
    /\ Alive
    /\ app.tipLoop = "run"
    /\ app.quit
    /\ app' = [app EXCEPT !.tipLoop = "exit"]
    /\ UNCHANGED <<store, btc, height, coord, rec, tasks, chans, calls, ghost>>

\* ------------------------------------------------------------ the engine
\* A value written to a request's errChan ("err") or successChan ("ok"); both
\* are one-slot channels owned by the request.
Reply(cs, c, v) ==
    [cs EXCEPT ![c].nrep = @ + 1, ![c].rep = IF @ = "none" THEN v ELSE @]

\* logger.Fatalf in the handler named why: the process exits on the spot.
Fatalf(why) == [app EXCEPT !.dead = TRUE, !.fatal = why]

EngineReady == Alive /\ app.engine = "run"

\* wc.SendRawTransaction of a staking, unbonding or spend transaction.
SendRaw(status) == IF status = TxNotFound THEN TxInMemPool ELSE status

\* sendDelegationRequest: the staking tx hash with the place of the
\* transaction on the chain (txIndex, inclusionBlock), kept as the height of
\* the inclusion block.
sendDelegationRequest(h, inclusionBlock) == [h |-> h, block |-> inclusionBlock]

\* sendDelegationWithTxToBabylon: queue the request on sendDelegationRequestChan.
sendDelegationWithTxToBabylon(q, req) == Append(q, req)

\* The staking request handler without the "continue" after the error of
\* waitForStakingTransactionConfirmation: the error is written and the
\* handler goes on to write the success reply as well.
handleStaking_stakingRequest_noContinue(c, sendOk, regOk) ==
    LET h == calls[c].h
        watched == calls[c].kind = "watch"
        recv == [calls EXCEPT ![c].pc = "wait"]
        added == IF watched THEN AddWatchedTransaction(store, h) ELSE AddTransaction(store, h)
    IN  /\ EngineReady
        /\ calls[c].pc = "send"
        /\ calls[c].kind \in {"stake", "watch"}
        /\ IF ~watched /\ ~sendOk
           THEN /\ calls' = Reply(recv, c, "err")
                /\ UNCHANGED <<store, btc, tasks, ghost>>
           ELSE /\ btc' = IF watched THEN btc ELSE [btc EXCEPT ![h].stk = SendRaw(@)]
                /\ ghost' = IF watched THEN ghost ELSE [ghost EXCEPT !.bcast = @ \cup {h}]
                /\ IF ~AddOk(store, h)
                   THEN /\ calls' = Reply(recv, c, "err")
                        /\ UNCHANGED <<store, tasks>>
                   ELSE /\ store' = added
                        /\ IF ~regOk
                           THEN /\ calls' = Reply(Reply(recv, c, "err"), c, "ok")
                                /\ UNCHANGED tasks
                           ELSE /\ tasks' = RegisterConfirmationsNtfn(Spawn(tasks, <<"stakeWait", "wait", h>>), "stakeWait", h, app.best)
                                /\ calls' = Reply(recv, c, "ok")
        /\ UNCHANGED <<height, coord, app, rec, chans>>

\* The staking request handler writing the record whether or not the store
\* holds one under the same hash: what it would do if AddTransaction and
\* AddWatchedTransaction did not refuse a duplicate key.
handleStaking_stakingRequest_overwrite(c, sendOk, regOk) ==
    LET h == calls[c].h
        watched == calls[c].kind = "watch"
        recv == [calls EXCEPT ![c].pc = "wait"]
        added == IF watched THEN AddWatchedTransaction(store, h) ELSE AddTransaction(store, h)
    IN  /\ EngineReady
        /\ calls[c].pc = "send"
        /\ calls[c].kind \in {"stake", "watch"}
        /\ IF ~watched /\ ~sendOk
           THEN /\ calls' = Reply(recv, c, "err")
                /\ UNCHANGED <<store, btc, tasks, ghost>>
           ELSE /\ btc' = IF watched THEN btc ELSE [btc EXCEPT ![h].stk = SendRaw(@)]
                /\ ghost' = IF watched THEN ghost ELSE [ghost EXCEPT !.bcast = @ \cup {h}]
                /\ store' = added
                /\ IF ~regOk
                   THEN /\ calls' = Reply(recv, c, "err")
                        /\ UNCHANGED tasks
                   ELSE /\ tasks' = RegisterConfirmationsNtfn(Spawn(tasks, <<"stakeWait", "wait", h>>), "stakeWait", h, app.best)
                        /\ calls' = Reply(recv, c, "ok")
        /\ UNCHANGED <<height, coord, app, rec, chans>>

\* handleStaking, case req := <-app.stakingRequestChan.  sendOk and regOk are
\* the outcomes of wc.SendRawTransaction and of RegisterConfirmationsNtfn.
handleStaking_stakingRequest(c, sendOk, regOk) ==
    LET h == calls[c].h
        watched == calls[c].kind = "watch"
        recv == [calls EXCEPT ![c].pc = "wait"]
        added == IF watched THEN AddWatchedTransaction(store, h) ELSE AddTransaction(store, h)
    IN  /\ EngineReady
        /\ calls[c].pc = "send"
        /\ calls[c].kind \in {"stake", "watch"}
        /\ IF ~watched /\ ~sendOk
           THEN \* broadcast failed: errChan, continue
                /\ calls' = Reply(recv, c, "err")
                /\ UNCHANGED <<store, btc, tasks, ghost>>
           ELSE /\ btc' = IF watched THEN btc ELSE [btc EXCEPT ![h].stk = SendRaw(@)]
                /\ ghost' = IF watched THEN ghost ELSE [ghost EXCEPT !.bcast = @ \cup {h}]
                /\ IF ~AddOk(store, h)
                   THEN \* the store refuses the insert: errChan, continue
                        /\ calls' = Reply(recv, c, "err")
                        /\ UNCHANGED <<store, tasks>>
                   ELSE /\ store' = added
                        /\ IF ~regOk
                           THEN \* waitForStakingTransactionConfirmation failed
                                /\ calls' = Reply(recv, c, "err")
                                /\ UNCHANGED tasks
                           ELSE /\ tasks' = RegisterConfirmationsNtfn(Spawn(tasks, <<"stakeWait", "wait", h>>), "stakeWait", h, app.best)
                                /\ calls' = Reply(recv, c, "ok")
        /\ UNCHANGED <<height, coord, app, rec, chans>>

\* The process ends while the engine handles an owned staking request, after
\* wc.SendRawTransaction has returned and before txTracker.AddTransaction;
\* a new process is constructed over the same database.
handleStaking_stakingRequest_crash(c) ==
    LET h == calls[c].h
    IN  /\ EngineReady
        /\ calls[c].pc = "send"
        /\ calls[c].kind = "stake"
        /\ btc' = [btc EXCEPT ![h].stk = SendRaw(@)]
        /\ ghost' = [ghost EXCEPT !.bcast = @ \cup {h}]
        /\ app' = NewApp
        /\ rec' = NewRec
        /\ tasks' = NewTasks
        /\ chans' = NewChans
        /\ calls' = NewCalls
        /\ UNCHANGED <<store, height, coord>>

\* The confirmation handler applying the event whatever the record's state:
\* what it would do if SetTxConfirmed did not validate the edge.
confirmationEvent_anyState(h, blockHeight, A) ==
    /\ store' = SetTxConfirmed(store, h, blockHeight)
    /\ chans' = [chans EXCEPT !.delQ =
                    sendDelegationWithTxToBabylon(@, sendDelegationRequest(h, blockHeight))]
    /\ app' = A

\* The confirmation handler persisting CONFIRMED_ON_BTC without queueing the
\* request for the coordinator.
confirmationEvent_noRequest(h, blockHeight, A) ==
    IF SetTxConfirmedOk(store, h)
    THEN /\ store' = SetTxConfirmed(store, h, blockHeight)
         /\ app' = A
         /\ UNCHANGED chans
    ELSE /\ app' = Fatalf("confirmation")
         /\ UNCHANGED <<store, chans>>

\* handleStaking, case confEvent := <-app.confirmationEventChan: the body run
\* on an event for H whose block height is blockHeight.  A is the value of
\* app once the handler is over (the sender of the event may be Start).
confirmationEvent(h, blockHeight, A) ==
    IF SetTxConfirmedOk(store, h)
    THEN /\ store' = SetTxConfirmed(store, h, blockHeight)
         /\ chans' = [chans EXCEPT !.delQ =
                         sendDelegationWithTxToBabylon(@, sendDelegationRequest(h, blockHeight))]
         /\ app' = A
    ELSE /\ app' = Fatalf("confirmation")
         /\ UNCHANGED <<store, chans>>

\* The body of the confirmation case when sendDelegationRequestChan holds as
\* many requests as its capacity: the record is written and the engine stays
\* in the send of sendDelegationWithTxToBabylon.
confirmationEvent_full(h, blockHeight, A) ==
    IF SetTxConfirmedOk(store, h)
    THEN /\ store' = SetTxConfirmed(store, h, blockHeight)
         /\ chans' = [chans EXCEPT !.held = <<sendDelegationRequest(h, blockHeight)>>]
         /\ app' = [A EXCEPT !.engine = "push"]
    ELSE /\ app' = Fatalf("confirmation")
         /\ UNCHANGED <<store, chans>>

\* handleStaking, case confEvent := <-app.confirmationEventChan, with a
\* sendDelegationRequestChan of the given capacity.  The event is sent by a
\* waitForStakingTxConfirmation goroutine, which then cancels its
\* registration and returns.
handleStaking_confirmation_capacity(h, capacity) ==
    /\ EngineReady
    /\ tasks[<<"stakeWait", "send", h>>] > 0
    /\ IF Len(chans.delQ) < capacity
       THEN confirmationEvent(h, btc[h].stk, app)
       ELSE confirmationEvent_full(h, btc[h].stk, app)
    /\ tasks' = Cancel(Exit(tasks, <<"stakeWait", "send", h>>), "stakeWait", h)
    /\ UNCHANGED <<btc, height, coord, rec, calls, ghost>>

handleStaking_confirmation(h) == handleStaking_confirmation_capacity(h, maxNumPendingDelegations)

\* The engine's send on sendDelegationRequestChan goes through once the
\* channel has room; the engine is back at its select.
sendDelegationWithTxToBabylon_sent(capacity) ==
    /\ Alive
    /\ app.engine = "push"
    /\ Len(chans.delQ) < capacity
    /\ chans' = [chans EXCEPT !.delQ = sendDelegationWithTxToBabylon(@, Head(chans.held)),
                              !.held = <<>>]
    /\ app' = [app EXCEPT !.engine = "run"]
    /\ UNCHANGED <<store, btc, height, coord, rec, tasks, calls, ghost>>

\* handleStaking, case sendToBabylonConf := <-app.sendDelegationResponseChan.
delegationResponse(h, ok, A) ==
    IF ok /\ SetTxSentToBabylonOk(store, h)
    THEN /\ store' = SetTxSentToBabylon(store, h)
         /\ app' = A
    ELSE /\ app' = Fatalf("delegation")
         /\ UNCHANGED store

\* the response is sent by the sender loop
handleStaking_delegationResponse ==
    /\ EngineReady
    /\ chans.sender.pc = "resp"
    /\ delegationResponse(chans.sender.h, chans.sender.ok, app)
    /\ chans' = [chans EXCEPT !.sender.pc = "idle"]
    /\ UNCHANGED <<btc, height, coord, rec, tasks, calls, ghost>>

\* The spend confirmation written whatever the record's state: what the
\* handler would do if SetTxSpentOnBtc did not validate the edge.
handleStaking_spendConfirmation_anyState(h) ==
    /\ EngineReady
    /\ tasks[<<"spendWait", "send", h>>] > 0
    /\ store' = SetTxSpentOnBtc(store, h)
    /\ tasks' = Cancel(Exit(tasks, <<"spendWait", "send", h>>), "spendWait", h)
    /\ ghost' = [ghost EXCEPT !.spendDue = @ \ {h}]
    /\ UNCHANGED <<btc, height, coord, app, rec, chans, calls>>

\* handleStaking, case spendTxConf := <-app.spendTxConfirmationChan.
handleStaking_spendConfirmation(h) ==
    /\ EngineReady
    /\ tasks[<<"spendWait", "send", h>>] > 0
    /\ IF SetTxSpentOnBtcOk(store, h)
       THEN /\ store' = SetTxSpentOnBtc(store, h)
            /\ UNCHANGED app
       ELSE /\ app' = Fatalf("spend")
            /\ UNCHANGED store
    /\ tasks' = Cancel(Exit(tasks, <<"spendWait", "send", h>>), "spendWait", h)
    /\ ghost' = [ghost EXCEPT !.spendDue = @ \ {h}]
    /\ UNCHANGED <<btc, height, coord, rec, chans, calls>>

\* The handler of sendUnbondingRequestConfirmChan moving the record to
\* UNBONDING_STARTED without handing the unbonding transaction and script of
\* the confirmation to the store.
unbondingRequestConfirm_noData(h, unbondingData, A) ==
    IF SetTxUnbondingStartedOk(store, h)
    THEN /\ store' = SetTxUnbondingStarted(store, h, "none")
         /\ tasks' = Spawn(tasks, <<"sigPoll", "poll", h>>)
         /\ app' = A
    ELSE /\ app' = Fatalf("unbondingStarted")
         /\ UNCHANGED <<store, tasks>>

\* The handler of sendUnbondingRequestConfirmChan moving the record to
\* UNBONDING_STARTED without starting checkForUnbondingTxSignaturesOnBabylon.
unbondingRequestConfirm_noPoll(h, unbondingData, A) ==
    IF SetTxUnbondingStartedOk(store, h)
    THEN /\ store' = SetTxUnbondingStarted(store, h, unbondingData)
         /\ app' = A
         /\ UNCHANGED tasks
    ELSE /\ app' = Fatalf("unbondingStarted")
         /\ UNCHANGED <<store, tasks>>

\* handleStaking, case confirmation := <-app.sendUnbondingRequestConfirmChan:
\* the body.
unbondingRequestConfirm(h, unbondingData, A) ==
    IF SetTxUnbondingStartedOk(store, h)
    THEN /\ store' = SetTxUnbondingStarted(store, h, unbondingData)
         /\ tasks' = Spawn(tasks, <<"sigPoll", "poll", h>>)
         /\ app' = A
    ELSE /\ app' = Fatalf("unbondingStarted")
         /\ UNCHANGED <<store, tasks>>

\* the confirmation is pushed by the sender loop on behalf of call c, whose
\* successChan receives the unbonding tx hash
handleStaking_unbondingRequestConfirm ==
    /\ EngineReady
    /\ chans.sender.pc = "ack"
    /\ unbondingRequestConfirm(chans.sender.h, "d", app)
    /\ calls' = IF SetTxUnbondingStartedOk(store, chans.sender.h)
                THEN Reply(calls, chans.sender.c, "ok")
                ELSE calls
    /\ chans' = [chans EXCEPT !.sender.pc = "idle"]
    /\ UNCHANGED <<btc, height, coord, rec, ghost>>

\* handleStaking, case unbondingSignaturesConf := <-app.unbondingSignaturesConfirmedChan.
handleStaking_unbondingSignatures(h) ==
    LET T == Exit(tasks, <<"sigPoll", "send", h>>)
    IN  /\ EngineReady
        /\ tasks[<<"sigPoll", "send", h>>] > 0
        /\ IF SetTxUnbondingSignaturesReceivedOk(store, h)
           THEN /\ store' = SetTxUnbondingSignaturesReceived(store, h)
                /\ tasks' = Spawn(T, <<"unbond", "bcast", h>>)
                /\ UNCHANGED app
           ELSE /\ app' = Fatalf("signatures")
                /\ tasks' = T
                /\ UNCHANGED store
        /\ UNCHANGED <<btc, height, coord, rec, chans, calls, ghost>>

\* handleStaking, case confOnBtc := <-app.unbondingConfirmedOnBtcChan.
handleStaking_unbondingConfirmedOnBtc(h) ==
    /\ EngineReady
    /\ tasks[<<"unbond", "send", h>>] > 0
    /\ IF SetTxUnbondingConfirmedOnBtcOk(store, h)
       THEN /\ store' = SetTxUnbondingConfirmedOnBtc(store, h, btc[h].unb)
            /\ UNCHANGED app
       ELSE /\ app' = Fatalf("unbondingConfirmed")
            /\ UNCHANGED store
    /\ tasks' = Cancel(Exit(tasks, <<"unbond", "send", h>>), "unbond", h)
    /\ UNCHANGED <<btc, height, coord, rec, chans, calls, ghost>>

\* handleStaking, case <-app.quit.
handleStaking_quit ==
    /\ EngineReady
    /\ app.quit
    /\ app' = [app EXCEPT !.engine = "exit"]
    /\ UNCHANGED <<store, btc, height, coord, rec, tasks, chans, calls, ghost>>

\* ------------------------------------------------- coordinator sender loop
\* handleSentToBabylon, case req := <-app.sendDelegationRequestChan: build the
\* delegation (for an owned record with the staker key taken from the wallet,
\* retrieveExternalDelegationData), submit it, and report on
\* sendDelegationResponseChan.
handleSentToBabylon_delegation(ok) ==
    LET h == Head(chans.delQ).h
    IN  /\ Alive
        /\ chans.sender.pc = "idle"
        /\ chans.delQ # <<>>
        /\ chans' = [chans EXCEPT !.delQ = Tail(@),
                                  !.sender = [pc |-> "resp", h |-> h, ok |-> ok, c |-> 0]]
        /\ coord' = IF ok THEN [coord EXCEPT ![h].del = TRUE] ELSE coord
        /\ ghost' = IF store[h].watched THEN ghost ELSE [ghost EXCEPT !.dumped = @ \cup {h}]
        /\ UNCHANGED <<store, btc, height, app, rec, tasks, calls>>

\* handleSentToBabylon, case req := <-app.sendUnbondingRequestChan:
\* SubmitUndelegation, then push the confirmation to the engine.
handleSentToBabylon_unbonding(c, ok) ==
    LET h == calls[c].h
        accepted == ok /\ coord[h].del /\ coord[h].undel = "none"
        recv == [calls EXCEPT ![c].pc = "wait"]
    IN  /\ Alive
        /\ chans.sender.pc = "idle"
        /\ calls[c].pc = "send"
        /\ calls[c].kind = "unbond"
        /\ IF accepted
           THEN /\ coord' = [coord EXCEPT ![h].undel = "d"]
                /\ chans' = [chans EXCEPT !.sender = [pc |-> "ack", h |-> h, ok |-> TRUE, c |-> c]]
                /\ calls' = recv
           ELSE /\ calls' = Reply(recv, c, "err")
                /\ UNCHANGED <<coord, chans>>
        /\ UNCHANGED <<store, btc, height, app, rec, tasks, ghost>>

\* PushOrQuit of the sender loop: the quit branch.
handleSentToBabylon_pushQuit ==
    /\ Alive
    /\ chans.sender.pc \in {"resp", "ack"}
    /\ app.quit
    /\ chans' = [chans EXCEPT !.sender.pc = "idle"]
    /\ UNCHANGED <<store, btc, height, coord, app, rec, tasks, calls, ghost>>

handleSentToBabylon_quit ==
    /\ Alive
    /\ chans.sender.pc = "idle"
    /\ app.quit
    /\ chans' = [chans EXCEPT !.sender.pc = "exit"]
    /\ UNCHANGED <<store, btc, height, coord, app, rec, tasks, calls, ghost>>

\* ------------------------------------------------------- helper goroutines
TaskStep(from, to) ==
    /\ Alive
    /\ tasks[from] > 0
    /\ tasks' = Move(tasks, from, to)

TaskExit(t) ==
    /\ Alive
    /\ tasks[t] > 0
    /\ tasks' = Exit(tasks, t)

\* A waiter returning after ev.Cancel().
TaskExitCancel(t) ==
    /\ Alive
    /\ tasks[t] > 0
    /\ tasks' = Cancel(Exit(tasks, t), t[1], t[3])

\* The watch asking the notifier for as many confirmations as the required
\* depth counts blocks.
numConfs_depth(requiredBlockDepth) == requiredBlockDepth

\* waitForStakingTransactionConfirmation: the number of confirmations asked of
\* RegisterConfirmationsNtfn for a required depth.
numConfs(requiredBlockDepth) == requiredBlockDepth + 1

\* waitForStakingTxConfirmation, case conf := <-ev.Confirmed: the notifier
\* fires once the transaction has the confirmations asked for; the goroutine
\* then sends on confirmationEventChan.
waitForStakingTxConfirmation_confirmed(h) ==
    /\ Confs(btc[h].stk) >= numConfs(ConfirmationTimeBlocks)
    /\ TaskStep(<<"stakeWait", "wait", h>>, <<"stakeWait", "send", h>>)
    /\ UNCHANGED <<store, btc, height, coord, app, rec, chans, calls, ghost>>

\* waitForStakingTxConfirmation, case <-app.quit (also the check on entry).
waitForStakingTxConfirmation_quit(h) ==
    /\ app.quit
    /\ TaskExitCancel(<<"stakeWait", "wait", h>>)
    /\ UNCHANGED <<store, btc, height, coord, app, rec, chans, calls, ghost>>

\* waitForSpendConfirmation, case <-ev.Confirmed.
waitForSpendConfirmation_confirmed(h) ==
    /\ Confs(btc[h].spd) >= SpendStakeTxConfirmations
    /\ TaskStep(<<"spendWait", "wait", h>>, <<"spendWait", "send", h>>)
    /\ UNCHANGED <<store, btc, height, coord, app, rec, chans, calls, ghost>>

\* The timeout case of waitForSpendConfirmation handing the engine a spend
\* confirmation, as the case of ev.Confirmed does.
waitForSpendConfirmation_timeout_sends(h) ==
    /\ TaskStep(<<"spendWait", "wait", h>>, <<"spendWait", "send", h>>)
    /\ ghost' = [ghost EXCEPT !.timedOut = @ \cup {h}]
    /\ UNCHANGED <<store, btc, height, coord, app, rec, chans, calls>>

\* waitForSpendConfirmation, case <-ctx.Done(): the 2 hour timeout.
waitForSpendConfirmation_timeout(h) ==
    /\ TaskExit(<<"spendWait", "wait", h>>)
    /\ ghost' = [ghost EXCEPT !.spendDue = @ \ {h}, !.timedOut = @ \cup {h}]
    /\ UNCHANGED <<store, btc, height, coord, app, rec, chans, calls>>

\* waitForSpendConfirmation, case <-app.quit (also the check on entry).
waitForSpendConfirmation_quit(h) ==
    /\ app.quit
    /\ TaskExitCancel(<<"spendWait", "wait", h>>)
    /\ ghost' = [ghost EXCEPT !.spendDue = @ \ {h}]
    /\ UNCHANGED <<store, btc, height, coord, app, rec, chans, calls>>

\* checkForUnbondingTxSignaturesOnBabylon: both signatures are on the
\* coordinator; push them to the engine.
checkForUnbondingTxSignaturesOnBabylon_found(h) ==
    /\ coord[h].sigs
    /\ TaskStep(<<"sigPoll", "poll", h>>, <<"sigPoll", "send", h>>)
    /\ UNCHANGED <<store, btc, height, coord, app, rec, chans, calls, ghost>>

checkForUnbondingTxSignaturesOnBabylon_quit(h, pc) ==
    /\ app.quit
    /\ pc \in {"poll", "send"}
    /\ TaskExit(<<"sigPoll", pc, h>>)
    /\ UNCHANGED <<store, btc, height, coord, app, rec, chans, calls, ghost>>

\* stakerPrivateKey: wc.UnlockWallet and wc.DumpPrivateKey for the staker
\* address of record H.
stakerPrivateKey(g, h) == [g EXCEPT !.dumped = @ \cup {h}]

\* The first loop of sendUnbondingTxToBtc left after one attempt, whether or
\* not the broadcast succeeded.
sendUnbondingTxToBtc_send_once(h, ok) ==
    /\ Alive
    /\ tasks[<<"unbond", "bcast", h>>] > 0
    /\ ghost' = stakerPrivateKey(ghost, h)
    /\ btc' = IF ok THEN [btc EXCEPT ![h].unb = SendRaw(@)] ELSE btc
    /\ tasks' = Move(tasks, <<"unbond", "bcast", h>>, <<"unbond", "reg", h>>)
    /\ UNCHANGED <<store, height, coord, app, rec, chans, calls>>

\* sendUnbondingTxToBtcWithWitness inside the retry loop of
\* sendUnbondingTxToBtc: take the staker key, sign, broadcast.
sendUnbondingTxToBtc_send(h, ok) ==
    /\ Alive
    /\ tasks[<<"unbond", "bcast", h>>] > 0
    /\ ghost' = stakerPrivateKey(ghost, h)
    /\ IF ok
       THEN /\ btc' = [btc EXCEPT ![h].unb = SendRaw(@)]
            /\ tasks' = Move(tasks, <<"unbond", "bcast", h>>, <<"unbond", "reg", h>>)
       ELSE UNCHANGED <<btc, tasks>>
    /\ UNCHANGED <<store, height, coord, app, rec, chans, calls>>

\* sendUnbondingTxToBtc, second loop: RegisterConfirmationsNtfn succeeded.
sendUnbondingTxToBtc_register(h) ==
    /\ Alive
    /\ tasks[<<"unbond", "reg", h>>] > 0
    /\ tasks' = RegisterConfirmationsNtfn(
                    Move(tasks, <<"unbond", "reg", h>>, <<"unbond", "wait", h>>), "unbond", h, app.best)
    /\ UNCHANGED <<store, btc, height, coord, app, rec, chans, calls, ghost>>

\* waitForUnbondingTxConfirmation, case conf := <-waitEv.Confirmed.
waitForUnbondingTxConfirmation_confirmed(h) ==
    /\ Confs(btc[h].unb) >= UnbondingTxConfirmations
    /\ TaskStep(<<"unbond", "wait", h>>, <<"unbond", "send", h>>)
    /\ UNCHANGED <<store, btc, height, coord, app, rec, chans, calls, ghost>>

\* the quit cases of sendUnbondingTxToBtcAndWaitForConfirmation and of the
\* PushOrQuit in waitForUnbondingTxConfirmation, which returns through its
\* deferred waitEv.Cancel()
sendUnbondingTxToBtcAndWaitForConfirmation_quit(h, pc) ==
    /\ app.quit
    /\ pc \in {"bcast", "reg", "wait", "send"}
    /\ IF pc \in {"wait", "send"}
       THEN TaskExitCancel(<<"unbond", pc, h>>)
       ELSE TaskExit(<<"unbond", pc, h>>)
    /\ UNCHANGED <<store, btc, height, coord, app, rec, chans, calls, ghost>>

\* --------------------------------------------------------------- user calls
FeeRates == {MinFeePerKb - 1, MinFeePerKb}

SlotFree(c) == calls[c].pc \in {"idle", "ret"}

\* No call in flight is about to create the owned staking tx H.
NotBeingStaked(h) == \A c \in Callers : ~(calls[c].pc = "send" /\ calls[c].kind = "stake" /\ calls[c].h = h)

Returned(kind, h, res) == [IdleCall EXCEPT !.pc = "ret", !.kind = kind, !.h = h, !.res = res]

Sending(kind, h) == [IdleCall EXCEPT !.pc = "send", !.kind = kind, !.h = h]

\* StakeFunds up to the send on stakingRequestChan.  valid: the validator
\* exists, the parameters were read, amount and lock pass their checks and
\* the wallet unlocked, dumped the key and signed the new transaction H.
StakeFunds_call(c, h, valid) ==
    /\ Alive
    /\ SlotFree(c)
    /\ store[h].state = ABSENT /\ btc[h].stk = TxNotFound /\ NotBeingStaked(h)
    /\ IF app.quit
       THEN /\ calls' = [calls EXCEPT ![c] = Returned("stake", h, "nil")]
            /\ UNCHANGED ghost
       ELSE IF ~valid
       THEN /\ calls' = [calls EXCEPT ![c] = Returned("stake", h, "err")]
            /\ UNCHANGED ghost
       ELSE /\ calls' = [calls EXCEPT ![c] = Sending("stake", h)]
            /\ ghost' = stakerPrivateKey(ghost, h)
    /\ UNCHANGED <<store, btc, height, coord, app, rec, tasks, chans>>

\* A uint32 as two 16-bit halves, value hi * 2^16 + lo; a uint16 is its low
\* half.
Limb == 65536

U32(hi, lo) == [hi |-> hi, lo |-> lo]

Less32(a, b) == a.hi < b.hi \/ (a.hi = b.hi /\ a.lo < b.lo)

\* getSlashingFee without the internal floor.
getSlashingFee_noFloor(p) == p.MinSlashingTxFeeSat

\* getSlashingFee: the coordinator's fee, or minSlashingFee when that is less.
getSlashingFee(p) ==
    IF p.MinSlashingTxFeeSat < minSlashingFee THEN minSlashingFee ELSE p.MinSlashingTxFeeSat

\* GetMinStakingTime: 2*p.FinalizationTimeoutBlocks + p.ConfirmationTimeBlocks
\* in uint32 arithmetic (the result is taken modulo 2^32).
GetMinStakingTime(p) ==
    LET lo == 2 * p.FinalizationTimeoutBlocks.lo + p.ConfirmationTimeBlocks.lo
        hi == 2 * p.FinalizationTimeoutBlocks.hi + p.ConfirmationTimeBlocks.hi + lo \div Limb
    IN  U32(hi % Limb, lo % Limb)

\* StakeFunds, the two checks of its arguments against the parameters:
\* stakingAmount <= slashingFee, uint32(stakingTimeBlocks) < minStakingTime.
StakeFunds_check(p, stakingAmount, stakingTimeBlocks) ==
    IF stakingAmount <= getSlashingFee(p) THEN "errAmount"
    ELSE IF Less32(U32(0, stakingTimeBlocks), GetMinStakingTime(p)) THEN "errTime"
    ELSE "pass"

\* StakeFunds with its arguments, up to the send on stakingRequestChan.  p is
\* what babylonClient.Params returned; ok: the validator exists, the wallet
\* unlocked and dumped the key, and the transaction was built and signed.
StakeFunds(c, h, p, stakingAmount, stakingTimeBlocks, ok) ==
    LET check == StakeFunds_check(p, stakingAmount, stakingTimeBlocks)
    IN  /\ Alive
        /\ SlotFree(c)
        /\ store[h].state = ABSENT /\ btc[h].stk = TxNotFound /\ NotBeingStaked(h)
        /\ IF app.quit
           THEN /\ calls' = [calls EXCEPT ![c] = Returned("stake", h, "nil")]
                /\ UNCHANGED ghost
           ELSE IF check # "pass"
           THEN /\ calls' = [calls EXCEPT ![c] = Returned("stake", h, check)]
                /\ UNCHANGED ghost
           ELSE /\ ghost' = stakerPrivateKey(ghost, h)
                /\ calls' = [calls EXCEPT ![c] = IF ok THEN Sending("stake", h)
                                                 ELSE Returned("stake", h, "err")]
        /\ UNCHANGED <<store, btc, height, coord, app, rec, tasks, chans>>

\* WatchStaking up to the send on stakingRequestChan.  valid: the parameters
\* were read, parseWatchStakingRequest accepted the request and the validator
\* exists.  The function has no quit check on entry.
WatchStaking_call(c, h, valid) ==
    /\ Alive
    /\ SlotFree(c)
    /\ NotBeingStaked(h)
    /\ h \notin ghost.bcast /\ h \notin ghost.dumped
    /\ calls' = [calls EXCEPT ![c] = IF valid THEN Sending("watch", h)
                                     ELSE Returned("watch", h, "err")]
    /\ UNCHANGED <<store, btc, height, coord, app, rec, tasks, chans, ghost>>

\* The select after the send: errChan, successChan or quit.
Call_reply(c) ==
    /\ Alive
    /\ calls[c].pc = "wait"
    /\ calls[c].rep # "none"
    /\ calls' = [calls EXCEPT ![c].pc = "ret", ![c].res = calls[c].rep]
    /\ UNCHANGED <<store, btc, height, coord, app, rec, tasks, chans, ghost>>

Call_quit(c) ==
    /\ Alive
    /\ calls[c].pc = "wait"
    /\ app.quit
    /\ calls' = [calls EXCEPT ![c].pc = "ret", ![c].res = "nil"]
    /\ UNCHANGED <<store, btc, height, coord, app, rec, tasks, chans, ghost>>

\* The checks of UnbondStaking with the state tested before the watched flag.
UnbondStaking_check_stateFirst(h, feeRate) ==
    IF store[h].state = ABSENT THEN "errNotFound"
    ELSE IF store[h].state # SENT_TO_BABYLON THEN "errState"
    ELSE IF store[h].watched THEN "errWatched"
    ELSE IF feeRate < MinFeePerKb THEN "errFee"
    ELSE "pass"

\* The checks of UnbondStaking without the test of tx.State.
UnbondStaking_check_noState(h, feeRate) ==
    IF store[h].state = ABSENT THEN "errNotFound"
    ELSE IF store[h].watched THEN "errWatched"
    ELSE IF feeRate < MinFeePerKb THEN "errFee"
    ELSE "pass"

\* UnbondStaking, the checks on the stored transaction, in the order of the
\* code: GetTransaction, tx.Watched, tx.State, fee rate.
UnbondStaking_check(h, feeRate) ==
    IF store[h].state = ABSENT THEN "errNotFound"
    ELSE IF store[h].watched THEN "errWatched"
    ELSE IF store[h].state # SENT_TO_BABYLON THEN "errState"
    ELSE IF feeRate < MinFeePerKb THEN "errFee"
    ELSE "pass"

\* UnbondStaking up to the send on sendUnbondingRequestChan.  ok: Params,
\* the staker key and createUndelegationData all succeeded.
UnbondStaking_call(c, h, feeRate, ok) ==
    LET check == UnbondStaking_check(h, feeRate)
    IN  /\ Alive
        /\ SlotFree(c)
        /\ IF app.quit
           THEN /\ calls' = [calls EXCEPT ![c] = Returned("unbond", h, "nil")]
                /\ UNCHANGED ghost
           ELSE IF check # "pass"
           THEN /\ calls' = [calls EXCEPT ![c] = Returned("unbond", h, check)]
                /\ UNCHANGED ghost
           ELSE /\ ghost' = stakerPrivateKey(ghost, h)
                /\ calls' = [calls EXCEPT ![c] = IF ok THEN Sending("unbond", h)
                                                 ELSE Returned("unbond", h, "err")]
        /\ UNCHANGED <<store, btc, height, coord, app, rec, tasks, chans>>

\* The client's Unbond handing the daemon every fee rate it is given, 0
\* included.
Unbond_zeroGiven(feeRate) ==
    IF feeRate < 0 THEN [err |-> TRUE, fr |-> <<>>] ELSE [err |-> FALSE, fr |-> <<feeRate>>]

\* Unbond of the client: a negative fee rate is an error, a positive one is
\* passed to the daemon, 0 is passed as no fee rate (fr is the pointer, <<>>
\* for nil).
Unbond(feeRate) ==
    IF feeRate < 0 THEN [err |-> TRUE, fr |-> <<>>]
    ELSE IF feeRate > 0 THEN [err |-> FALSE, fr |-> <<feeRate>>]
    ELSE [err |-> FALSE, fr |-> <<>>]

\* UnbondStaking: the fee rate given, or the estimator's when none is given.
unbondingTxFeeRatePerKb(feeRate, estimate) == IF feeRate = <<>> THEN estimate ELSE feeRate[1]

\* An unbond request made through the client: Unbond, then UnbondStaking in
\* the daemon with the fee rate the client passed; estimate is the value of
\* feeEstimator.EstimateFeePerKb.
Unbond_call(c, h, feeRate, estimate, ok) ==
    IF Unbond(feeRate).err
    THEN /\ Alive
         /\ SlotFree(c)
         /\ calls' = [calls EXCEPT ![c] = Returned("unbond", h, "errClient")]
         /\ UNCHANGED <<store, btc, height, coord, app, rec, tasks, chans, ghost>>
    ELSE UnbondStaking_call(c, h, unbondingTxFeeRatePerKb(Unbond(feeRate).fr, estimate), ok)

\* SpendStake: the stored transaction is owned and its stake sits in the
\* staking output (SENT_TO_BABYLON) or in the unbonding output
\* (UNBONDING_CONFIRMED_ON_BTC); take the key, broadcast the spend
\* transaction (sendOk), register for 3 confirmations (regOk) and start
\* waitForSpendConfirmation.
SpendStake(h, sendOk, regOk) ==
    /\ Alive
    /\ ~app.quit
    /\ store[h].state \in {SENT_TO_BABYLON, UNBONDING_CONFIRMED_ON_BTC}
    /\ ~store[h].watched
    /\ IF sendOk /\ btc[h].spd = TxNotFound
       THEN /\ btc' = [btc EXCEPT ![h].spd = SendRaw(@)]
            /\ tasks' = IF regOk THEN RegisterConfirmationsNtfn(Spawn(tasks, <<"spendWait", "wait", h>>), "spendWait", h, app.best) ELSE tasks
            /\ ghost' = [stakerPrivateKey(ghost, h) EXCEPT
                             !.spendDue = IF regOk THEN @ \cup {h} ELSE @]
       ELSE /\ ghost' = stakerPrivateKey(ghost, h)
            /\ UNCHANGED <<btc, tasks>>
    /\ UNCHANGED <<store, height, coord, app, rec, chans, calls>>

\* ------------------------------------------- startup: checkTransactionsStatus
Min(S) == CHOOSE x \in S : \A y \in S : x <= y

\* The three work lists filled by ScanTrackedTransactions, as sets of keys;
\* each list is walked in the order of the scan (ascending key).
transactionsSentToBtc(snap) == {h \in Hashes : snap[h] = SENT_TO_BTC}

transactionConfirmedOnBtc(snap) == {h \in Hashes : snap[h] = CONFIRMED_ON_BTC}

transactionsOnBabylon(snap) ==
    {h \in Hashes : snap[h] \in {SENT_TO_BABYLON, UNBONDING_STARTED, UNBONDING_SIGNATURES_RECEIVED}}

RecAt(pc, snap, todo, cur) == [pc |-> pc, snap |-> snap, todo |-> todo, cur |-> cur]

\* return nil / return err of checkTransactionsStatus
RecEnd == [pc |-> "end", snap |-> [h \in Hashes |-> ABSENT], todo |-> {}, cur |-> 0]

Loop3(snap, todo) == IF todo = {} THEN RecEnd ELSE RecAt("loop3", snap, todo, 0)

Loop2(snap, todo) ==
    IF todo = {} THEN Loop3(snap, transactionsOnBabylon(snap)) ELSE RecAt("loop2", snap, todo, 0)

Loop1(snap, todo) ==
    IF todo = {} THEN Loop2(snap, transactionConfirmedOnBtc(snap)) ELSE RecAt("loop1", snap, todo, 0)

\* Start returns nil when the reconciler, going on at r, is over.
StartReturns(r) == IF r.pc = "end" THEN [app EXCEPT !.start = "done"] ELSE app

RecGoes(r) ==
    /\ rec' = r
    /\ app' = StartReturns(r)

Reconciling == Alive /\ app.start = "rec"

\* ScanTrackedTransactions: record the state of every stored transaction.
checkTransactionsStatus_scan ==
    LET snap == [h \in Hashes |-> store[h].state]
    IN  /\ Reconciling
        /\ rec.pc = "scan"
        /\ RecGoes(Loop1(snap, transactionsSentToBtc(snap)))
        /\ UNCHANGED <<store, btc, height, coord, tasks, chans, calls, ghost>>

\* a communication error of the wallet, the notifier or the coordinator:
\* checkTransactionsStatus returns it, Start fails and the daemon exits
checkTransactionsStatus_error ==
    /\ Reconciling
    /\ rec.pc \in {"scan", "loop1", "loop2", "loop3"}
    /\ rec' = RecEnd
    /\ app' = [app EXCEPT !.start = "err", !.dead = TRUE]
    /\ UNCHANGED <<store, btc, height, coord, tasks, chans, calls, ghost>>

\* handleBtcTxInfo with params.ConfirmationTimeBlocks as an argument: what
\* to do with a SENT_TO_BTC transaction whose wallet status is txStatus,
\* given the best height held by the daemon.
handleBtcTxInfo_params(confirmationTimeBlocks, txStatus, currentBestBlockHeight) ==
    IF txStatus = TxNotFound THEN "log"
    ELSE IF txStatus = TxInMemPool THEN "watch"
    ELSE IF currentBestBlockHeight < txStatus THEN "log"
    ELSE IF currentBestBlockHeight - txStatus >= confirmationTimeBlocks THEN "event"
    ELSE "watch"

\* handleBtcTxInfo under the coordinator parameter of the model.
handleBtcTxInfo(txStatus, currentBestBlockHeight) ==
    handleBtcTxInfo_params(ConfirmationTimeBlocks, txStatus, currentBestBlockHeight)

\* first loop: for _, txHash := range transactionsSentToBtc, where the
\* coordinator's parameters give confirmationTimeBlocks.  Both watches of
\* handleBtcTxInfo pass currentBestBlockHeight as the height hint.
checkTransactionsStatus_sentToBtc_params(confirmationTimeBlocks) ==
    LET h == Min(rec.todo)
        rest == rec.todo \ {h}
        todo == handleBtcTxInfo_params(confirmationTimeBlocks, btc[h].stk, app.best)
    IN  /\ Reconciling
        /\ rec.pc = "loop1"
        /\ IF todo = "event"
           THEN /\ rec' = RecAt("conf", rec.snap, rest, h)
                /\ UNCHANGED <<app, tasks>>
           ELSE /\ RecGoes(Loop1(rec.snap, rest))
                /\ tasks' = IF todo = "watch" THEN RegisterConfirmationsNtfn(Spawn(tasks, <<"stakeWait", "wait", h>>), "stakeWait", h, app.best)
                            ELSE tasks
        /\ UNCHANGED <<store, btc, height, coord, chans, calls, ghost>>

checkTransactionsStatus_sentToBtc ==
    checkTransactionsStatus_sentToBtc_params(ConfirmationTimeBlocks)

\* the blocked send app.confirmationEventChan <- ... of handleBtcTxInfo is
\* received by the engine
handleStaking_confirmation_startup ==
    LET r == Loop1(rec.snap, rec.todo)
    IN  /\ EngineReady
        /\ rec.pc = "conf"
        /\ Len(chans.delQ) < maxNumPendingDelegations
        /\ confirmationEvent(rec.cur, btc[rec.cur].stk, StartReturns(r))
        /\ rec' = IF SetTxConfirmedOk(store, rec.cur) THEN r ELSE rec
        /\ UNCHANGED <<btc, height, coord, tasks, calls, ghost>>

\* The second loop repairing the record by itself when the delegation is
\* already on the coordinator, in place of sending the response to the engine.
checkTransactionsStatus_confirmedOnBtc_writes ==
    LET h == Min(rec.todo)
        rest == rec.todo \ {h}
    IN  /\ Reconciling
        /\ rec.pc = "loop2"
        /\ IF coord[h].del
           THEN /\ store' = SetTxSentToBabylon(store, h)
                /\ RecGoes(Loop2(rec.snap, rest))
                /\ UNCHANGED chans
           ELSE IF btc[h].stk <= 0
           THEN /\ RecGoes(RecEnd)
                /\ UNCHANGED <<store, chans>>
           ELSE /\ Len(chans.delQ) < maxNumPendingDelegations
                /\ chans' = [chans EXCEPT !.delQ =
                                sendDelegationWithTxToBabylon(@, sendDelegationRequest(h, btc[h].stk))]
                /\ RecGoes(RecEnd)
                /\ UNCHANGED store
        /\ UNCHANGED <<btc, height, coord, tasks, calls, ghost>>

\* second loop: for _, txHash := range transactionConfirmedOnBtc
checkTransactionsStatus_confirmedOnBtc ==
    LET h == Min(rec.todo)
        rest == rec.todo \ {h}
    IN  /\ Reconciling
        /\ rec.pc = "loop2"
        /\ IF coord[h].del
           THEN \* alreadyOnBabylon: send on sendDelegationResponseChan
                /\ rec' = RecAt("resp", rec.snap, rest, h)
                /\ UNCHANGED <<app, chans>>
           ELSE IF btc[h].stk <= 0
           THEN \* status != TxInChain: log and return nil
                /\ RecGoes(RecEnd)
                /\ UNCHANGED chans
           ELSE \* resubmit to the coordinator, then return nil
                /\ Len(chans.delQ) < maxNumPendingDelegations
                /\ chans' = [chans EXCEPT !.delQ =
                                sendDelegationWithTxToBabylon(@, sendDelegationRequest(h, btc[h].stk))]
                /\ RecGoes(RecEnd)
        /\ UNCHANGED <<store, btc, height, coord, tasks, calls, ghost>>

\* the blocked send app.sendDelegationResponseChan <- ... is received by the engine
handleStaking_delegationResponse_startup ==
    LET r == Loop2(rec.snap, rec.todo)
    IN  /\ EngineReady
        /\ rec.pc = "resp"
        /\ delegationResponse(rec.cur, TRUE, StartReturns(r))
        /\ rec' = IF SetTxSentToBabylonOk(store, rec.cur) THEN r ELSE rec
        /\ UNCHANGED <<btc, height, coord, tasks, chans, calls, ghost>>

\* The height hint of the third loop's watch always the best height.
txHeightHint_best(status, currentBestBlockHeight) == currentBestBlockHeight

\* txHeightHint of the third loop: the inclusion height of an unbonding
\* transaction in the chain, the best height for one in the mempool.
txHeightHint(status, currentBestBlockHeight) ==
    IF status > 0 THEN status ELSE currentBestBlockHeight

\* what the third loop does with a record found in localState
onBabylon(h, localState) ==
    IF localState = UNBONDING_SIGNATURES_RECEIVED
    THEN IF btc[h].unb = TxNotFound THEN "resend" ELSE "watch"
    ELSE IF localState = UNBONDING_STARTED THEN "poll"
    ELSE IF ~coord[h].del THEN "continue"
    ELSE IF coord[h].undel = "none" THEN "continue"
    ELSE "confirm"

\* third loop: for _, localInfo := range transactionsOnBabylon
checkTransactionsStatus_onBabylon ==
    LET h == Min(rec.todo)
        rest == rec.todo \ {h}
        todo == onBabylon(h, rec.snap[h])
    IN  /\ Reconciling
        /\ rec.pc = "loop3"
        /\ IF todo = "confirm"
           THEN /\ rec' = RecAt("ack", rec.snap, rest, h)
                /\ UNCHANGED <<app, tasks>>
           ELSE /\ RecGoes(Loop3(rec.snap, rest))
                /\ tasks' = CASE todo = "resend" -> Spawn(tasks, <<"unbond", "bcast", h>>)
                              [] todo = "watch" -> RegisterConfirmationsNtfn(Spawn(tasks, <<"unbond", "wait", h>>), "unbond", h,
                                                        txHeightHint(btc[h].unb, app.best))
                              [] todo = "poll" -> Spawn(tasks, <<"sigPoll", "poll", h>>)
                              [] OTHER -> tasks
        /\ UNCHANGED <<store, btc, height, coord, chans, calls, ghost>>

\* PushOrQuit(app.sendUnbondingRequestConfirmChan, ...) of the third loop is
\* received by the engine, with the unbonding data the coordinator reported
handleStaking_unbondingRequestConfirm_startup ==
    LET r == Loop3(rec.snap, rec.todo)
    IN  /\ EngineReady
        /\ rec.pc = "ack"
        /\ unbondingRequestConfirm(rec.cur, coord[rec.cur].undel, StartReturns(r))
        /\ rec' = IF SetTxUnbondingStartedOk(store, rec.cur) THEN r ELSE rec
        /\ UNCHANGED <<btc, height, coord, chans, calls, ghost>>

\* PushOrQuit of the third loop: the quit branch
checkTransactionsStatus_pushQuit ==
    /\ Reconciling
    /\ rec.pc = "ack"
    /\ app.quit
    /\ RecGoes(Loop3(rec.snap, rec.todo))
    /\ UNCHANGED <<store, btc, height, coord, tasks, chans, calls, ghost>>

\* ------------------------------------------------------------------- Next
\* Bitcoin, the coordinator and the outside holder of a watched stake
Environment ==
    \/ MineBlock
    \/ \E h \in Staked : ExternalBroadcast(h)
    \/ \E h \in Hashes : ExternalUndelegate(h)
    \/ \E h \in Hashes : CoordinatorSigns(h)

\* Start and the startup reconciler
Startup ==
    \/ Start_begin
    \/ Start_tip
    \/ checkTransactionsStatus_scan
    \/ checkTransactionsStatus_error
    \/ checkTransactionsStatus_sentToBtc
    \/ checkTransactionsStatus_confirmedOnBtc
    \/ checkTransactionsStatus_onBabylon
    \/ handleStaking_confirmation_startup
    \/ handleStaking_delegationResponse_startup
    \/ handleStaking_unbondingRequestConfirm_startup

\* the engine, the sender loop, the tip handler and the helper goroutines
Engine ==
    \/ handleNewBlocks
    \/ \E c \in Callers, sendOk, regOk \in BOOLEAN : handleStaking_stakingRequest(c, sendOk, regOk)
    \/ \E h \in Hashes : handleStaking_confirmation(h)
    \/ handleStaking_delegationResponse
    \/ \E h \in Hashes : handleStaking_spendConfirmation(h)
    \/ handleStaking_unbondingRequestConfirm
    \/ \E h \in Hashes : handleStaking_unbondingSignatures(h)
    \/ \E h \in Hashes : handleStaking_unbondingConfirmedOnBtc(h)
    \/ \E ok \in BOOLEAN : handleSentToBabylon_delegation(ok)
    \/ \E c \in Callers, ok \in BOOLEAN : handleSentToBabylon_unbonding(c, ok)
    \/ \E h \in Hashes : waitForStakingTxConfirmation_confirmed(h)
    \/ \E h \in Hashes : waitForSpendConfirmation_confirmed(h)
    \/ \E h \in Hashes : waitForSpendConfirmation_timeout(h)
    \/ \E h \in Hashes : checkForUnbondingTxSignaturesOnBabylon_found(h)
    \/ \E h \in Hashes, ok \in BOOLEAN : sendUnbondingTxToBtc_send(h, ok)
    \/ \E h \in Hashes : sendUnbondingTxToBtc_register(h)
    \/ \E h \in Hashes : waitForUnbondingTxConfirmation_confirmed(h)

\* the user calls
UserCalls ==
    \/ \E c \in Callers, h \in Staked, valid \in BOOLEAN : StakeFunds_call(c, h, valid)
    \/ \E c \in Callers, h \in Staked, valid \in BOOLEAN : WatchStaking_call(c, h, valid)
    \/ \E c \in Callers : Call_reply(c)
    \/ \E c \in Callers, h \in Hashes, feeRate \in FeeRates, ok \in BOOLEAN :
           UnbondStaking_call(c, h, feeRate, ok)
    \/ \E h \in Hashes, sendOk, regOk \in BOOLEAN : SpendStake(h, sendOk, regOk)

\* what follows from the quit signal once Stop has closed the channel
Shutdown ==
    \/ Stop_return
    \/ handleNewBlocks_quit
    \/ handleStaking_quit
    \/ handleSentToBabylon_pushQuit
    \/ handleSentToBabylon_quit
    \/ \E h \in Hashes : waitForStakingTxConfirmation_quit(h)
    \/ \E h \in Hashes : waitForSpendConfirmation_quit(h)
    \/ \E h \in Hashes, pc \in {"poll", "send"} : checkForUnbondingTxSignaturesOnBabylon_quit(h, pc)
    \/ \E h \in Hashes, pc \in {"bcast", "reg", "wait", "send"} :
           sendUnbondingTxToBtcAndWaitForConfirmation_quit(h, pc)
    \/ \E c \in Callers : Call_quit(c)

\* The daemon over its whole life, restarts included, as long as nobody stops it.
Next == Environment \/ Startup \/ Engine \/ UserCalls \/ Restart

Spec == Init /\ [][Next]_vars


\* ------------------------------------------------------ a run that is stopped
\* One run of the daemon from an empty store until Stop, which is called once
\* Start has returned; every wallet, notifier and coordinator call succeeds
\* and every user request is well formed.
StartupStop ==
    \/ Start_begin
    \/ Start_tip
    \/ checkTransactionsStatus_scan

EngineStop ==
    \/ handleNewBlocks
    \/ \E c \in Callers : handleStaking_stakingRequest(c, TRUE, TRUE)
    \/ \E h \in Hashes : handleStaking_confirmation(h)
    \/ handleStaking_delegationResponse
    \/ \E h \in Hashes : handleStaking_spendConfirmation(h)
    \/ handleStaking_unbondingRequestConfirm
    \/ \E h \in Hashes : handleStaking_unbondingSignatures(h)
    \/ \E h \in Hashes : handleStaking_unbondingConfirmedOnBtc(h)
    \/ handleSentToBabylon_delegation(TRUE)
    \/ \E c \in Callers : handleSentToBabylon_unbonding(c, TRUE)
    \/ \E h \in Hashes : waitForStakingTxConfirmation_confirmed(h)
    \/ \E h \in Hashes : waitForSpendConfirmation_confirmed(h)
    \/ \E h \in Hashes : checkForUnbondingTxSignaturesOnBabylon_found(h)
    \/ \E h \in Hashes : sendUnbondingTxToBtc_send(h, TRUE)
    \/ \E h \in Hashes : sendUnbondingTxToBtc_register(h)
    \/ \E h \in Hashes : waitForUnbondingTxConfirmation_confirmed(h)

CallsStop ==
    \/ \E c \in Callers, h \in Staked : StakeFunds_call(c, h, TRUE)
    \/ \E c \in Callers, h \in Staked : WatchStaking_call(c, h, TRUE)
    \/ \E c \in Callers : Call_reply(c)
    \/ \E c \in Callers, h \in Staked :
           /\ app.quit \/ UnbondStaking_check(h, MinFeePerKb) = "pass"
           /\ UnbondStaking_call(c, h, MinFeePerKb, TRUE)
    \/ \E h \in Staked : SpendStake(h, TRUE, TRUE)

StopAfterStart == app.start = "done" /\ Stop_begin

NextStop ==
    Environment \/ StartupStop \/ EngineStop \/ CallsStop \/ StopAfterStart \/ Shutdown

SpecStop == Init /\ [][NextStop]_vars

\* One run of the daemon from an empty store that nobody stops, in which the
\* submission of a delegation may fail.  The Go scheduler runs every
\* goroutine that can take a step and select takes a ready case: the sender
\* loop takes the next queued request and the engine takes what the sender
\* loop hands it.
NextLive ==
    Environment \/ StartupStop \/ EngineStop \/ CallsStop \/ handleSentToBabylon_delegation(FALSE)

Fairness ==
    /\ WF_vars(\E ok \in BOOLEAN : handleSentToBabylon_delegation(ok))
    /\ WF_vars(handleStaking_delegationResponse)
    /\ WF_vars(handleStaking_unbondingRequestConfirm)

SpecLive == Init /\ [][NextLive]_vars /\ Fairness

\* One run of the daemon from an empty store until Stop, in which the
\* broadcast of an unbonding transaction may fail and is tried again.  A
\* goroutine that can register its watch, take the notifier's confirmation or
\* hand its event to a running engine does so.
NextUnbond ==
    NextStop \/ \E h \in Hashes : sendUnbondingTxToBtc_send(h, FALSE)

FairnessUnbond ==
    \A h \in Hashes :
        /\ WF_vars(sendUnbondingTxToBtc_register(h))
        /\ WF_vars(waitForUnbondingTxConfirmation_confirmed(h))
        /\ WF_vars(handleStaking_unbondingConfirmedOnBtc(h))

SpecUnbond == Init /\ [][NextUnbond]_vars /\ FairnessUnbond

\* One run of the daemon from an empty store until Stop, under the Go
\* scheduler: a goroutine whose select has the closed quit channel among its
\* ready cases takes a case, and the engine at its select takes what is sent
\* to it or quit.
FairnessQuit ==
    /\ WF_vars(handleStaking_quit)
    /\ \A h \in Hashes :
           /\ WF_vars(waitForStakingTxConfirmation_quit(h))
           /\ WF_vars(waitForSpendConfirmation_quit(h))
           /\ WF_vars(handleStaking_confirmation(h))
           /\ WF_vars(handleStaking_spendConfirmation(h))
           /\ WF_vars(handleStaking_unbondingConfirmedOnBtc(h))
           /\ \A pc \in {"bcast", "reg", "wait", "send"} :
                  WF_vars(sendUnbondingTxToBtcAndWaitForConfirmation_quit(h, pc))

SpecQuit == Init /\ [][NextStop]_vars /\ FairnessQuit

\* The daemon over its whole life, where the process may also end in the
\* middle of the handling of an owned staking request.
NextCrash == Next \/ \E c \in Callers : handleStaking_stakingRequest_crash(c)

SpecCrash == Init /\ [][NextCrash]_vars

\* One run of the daemon from an empty store in which Start and Stop are
\* called any number of times, in any order and at any moment, while blocks
\* arrive and a user has a stake watched.
NextOnce ==
    \/ MineBlock
    \/ \E h \in Staked : ExternalBroadcast(h)
    \/ StartupStop
    \/ Start_quit
    \/ Start_again
    \/ handleNewBlocks
    \/ Stop_begin
    \/ Stop_again
    \/ Stop_return
    \/ handleNewBlocks_quit
    \/ handleStaking_quit
    \/ handleSentToBabylon_quit
    \/ \E c \in Callers, h \in Staked : WatchStaking_call(c, h, TRUE)
    \/ \E c \in Callers : handleStaking_stakingRequest(c, TRUE, TRUE)
    \/ \E c \in Callers : Call_reply(c)
    \/ \E c \in Callers : Call_quit(c)
    \/ \E h \in Hashes : waitForStakingTxConfirmation_quit(h)

SpecOnce == Init /\ [][NextOnce]_vars

\* ------------------------------------------- StakeFunds with its arguments
\* Values of a uint32 parameter, with the ends of the range and the values
\* around 2^15, 2^16 and 2^31.
ParamValues ==
    {U32(0, 0), U32(0, 1), U32(0, 2), U32(0, 32767), U32(0, 32768), U32(0, 65535),
     U32(1, 0), U32(32768, 0), U32(65535, 65535)}

\* Results of babylonClient.Params.
StakingParams ==
    [MinSlashingTxFeeSat : {500, 999, 1000, 1500},
     FinalizationTimeoutBlocks : ParamValues,
     ConfirmationTimeBlocks : {U32(0, 0), U32(0, 1), U32(0, 65535), U32(65535, 65535)}]

\* Arguments of a StakeFunds call: the amount and the uint16 lock.
StakeArgs ==
    [stakingAmount : {500, 501, 1000, 1001, 1500, 1501},
     stakingTimeBlocks : {0, 1, 2, 3, 4, 5, 65534, 65535}]

\* A daemon over an empty store whose coordinator reports the parameters
\* req.p and whose user calls StakeFunds with the arguments req.a.
InitStake ==
    /\ store = [h \in Hashes |-> NoRecord]
    /\ btc = [h \in Hashes |-> [stk |-> TxNotFound, unb |-> TxNotFound, spd |-> TxNotFound]]
    /\ height = 0
    /\ coord = [h \in Hashes |-> [del |-> FALSE, undel |-> "none", sigs |-> FALSE]]
    /\ app = NewApp
    /\ rec = NewRec
    /\ tasks = NewTasks
    /\ chans = NewChans
    /\ calls = NewCalls
    /\ \E p \in StakingParams, a \in StakeArgs :
           ghost = [dumped |-> {}, bcast |-> {}, spendDue |-> {}, timedOut |-> {},
                    req |-> [p |-> p, a |-> a]]

NextStake ==
    \/ StartupStop
    \/ \E c \in Callers, h \in Staked, ok \in BOOLEAN :
           StakeFunds(c, h, ghost.req.p, ghost.req.a.stakingAmount,
                      ghost.req.a.stakingTimeBlocks, ok)
    \/ \E c \in Callers, sendOk, regOk \in BOOLEAN : handleStaking_stakingRequest(c, sendOk, regOk)
    \/ \E c \in Callers : Call_reply(c)

SpecStake == InitStake /\ [][NextStake]_vars

\* -------------------------------------------- a start over a store in use
\* Best block when the daemon is started again, and the block that holds the
\* staking transactions confirmed before.
StartHeight == 2
StakedAt == StartHeight - ConfirmationTimeBlocks

Tx(stk, unb, spd) == [stk |-> stk, unb |-> unb, spd |-> spd]

Delegation(del, undel, sigs) == [del |-> del, undel |-> undel, sigs |-> sigs]

Stored(state, watched, incl, unb) ==
    [state |-> state, watched |-> watched, incl |-> incl, unb |-> unb, unbIncl |-> 0]

Left(s, b, c) == [s |-> s, b |-> b, c |-> c]

\* What a daemon that was killed leaves behind for one staking transaction:
\* its record, the wallet's view of its transactions and the coordinator's
\* view of its delegation.  Each one is a point of the lifecycle of a record
\* under Spec, one for every branch of checkTransactionsStatus.
Leftovers ==
    { Left(NoRecord, Tx(TxNotFound, TxNotFound, TxNotFound), Delegation(FALSE, "none", FALSE)),
      Left(Stored(SENT_TO_BTC, TRUE, 0, "none"),
           Tx(TxNotFound, TxNotFound, TxNotFound), Delegation(FALSE, "none", FALSE)),
      Left(Stored(SENT_TO_BTC, FALSE, 0, "none"),
           Tx(TxInMemPool, TxNotFound, TxNotFound), Delegation(FALSE, "none", FALSE)),
      Left(Stored(SENT_TO_BTC, FALSE, 0, "none"),
           Tx(StakedAt, TxNotFound, TxNotFound), Delegation(FALSE, "none", FALSE)),
      Left(Stored(CONFIRMED_ON_BTC, FALSE, StakedAt, "none"),
           Tx(StakedAt, TxNotFound, TxNotFound), Delegation(FALSE, "none", FALSE)),
      Left(Stored(CONFIRMED_ON_BTC, FALSE, StakedAt, "none"),
           Tx(StakedAt, TxNotFound, TxNotFound), Delegation(TRUE, "none", FALSE)),
      \* the wallet's node lost the block of a confirmed transaction
      Left(Stored(CONFIRMED_ON_BTC, FALSE, StakedAt, "none"),
           Tx(TxNotFound, TxNotFound, TxNotFound), Delegation(FALSE, "none", FALSE)),
      \* the coordinator's node lags and does not know the delegation
      Left(Stored(SENT_TO_BABYLON, FALSE, StakedAt, "none"),
           Tx(StakedAt, TxNotFound, TxNotFound), Delegation(FALSE, "none", FALSE)),
      Left(Stored(SENT_TO_BABYLON, FALSE, StakedAt, "none"),
           Tx(StakedAt, TxNotFound, TxNotFound), Delegation(TRUE, "none", FALSE)),
      Left(Stored(SENT_TO_BABYLON, FALSE, StakedAt, "none"),
           Tx(StakedAt, TxNotFound, TxNotFound), Delegation(TRUE, "d", FALSE)),
      Left(Stored(SENT_TO_BABYLON, TRUE, StakedAt, "none"),
           Tx(StakedAt, TxNotFound, TxNotFound), Delegation(TRUE, "x", FALSE)),
      Left(Stored(UNBONDING_STARTED, FALSE, StakedAt, "d"),
           Tx(StakedAt, TxNotFound, TxNotFound), Delegation(TRUE, "d", FALSE)),
      Left(Stored(UNBONDING_SIGNATURES_RECEIVED, FALSE, StakedAt, "d"),
           Tx(StakedAt, TxNotFound, TxNotFound), Delegation(TRUE, "d", TRUE)),
      Left(Stored(UNBONDING_SIGNATURES_RECEIVED, FALSE, StakedAt, "d"),
           Tx(StakedAt, TxInMemPool, TxNotFound), Delegation(TRUE, "d", TRUE)) }

\* NewStakerAppFromDeps over a store some earlier run filled.
InitStartup ==
    /\ \E left \in [Hashes -> Leftovers] :
           /\ store = [h \in Hashes |-> left[h].s]
           /\ btc = [h \in Hashes |-> left[h].b]
           /\ coord = [h \in Hashes |-> left[h].c]
           /\ LET owned == {h \in Hashes : left[h].s.state # ABSENT /\ ~left[h].s.watched}
              IN  ghost = [dumped |-> owned, bcast |-> owned, spendDue |-> {}, timedOut |-> {}]
    /\ height = StartHeight
    /\ app = NewApp
    /\ rec = NewRec
    /\ tasks = NewTasksHints
    /\ chans = NewChans
    /\ calls = NewCalls

EnvironmentStartup ==
    \/ MineBlock
    \/ \E h \in Hashes : CoordinatorSigns(h)

EngineStartup ==
    \/ handleNewBlocks
    \/ \E h \in Hashes : handleStaking_confirmation(h)
    \/ handleStaking_delegationResponse
    \/ \E h \in Hashes : handleStaking_unbondingSignatures(h)
    \/ \E h \in Hashes : handleStaking_unbondingConfirmedOnBtc(h)
    \/ \E ok \in BOOLEAN : handleSentToBabylon_delegation(ok)
    \/ \E h \in Hashes : waitForStakingTxConfirmation_confirmed(h)
    \/ \E h \in Hashes : checkForUnbondingTxSignaturesOnBabylon_found(h)
    \/ \E h \in Hashes, ok \in BOOLEAN : sendUnbondingTxToBtc_send(h, ok)
    \/ \E h \in Hashes : sendUnbondingTxToBtc_register(h)
    \/ \E h \in Hashes : waitForUnbondingTxConfirmation_confirmed(h)

\* Stop called while Start is still at work
ShutdownStartup ==
    \/ Stop_begin
    \/ Start_quit
    \/ checkTransactionsStatus_pushQuit

\* The start of a daemon over a store in use, with no user request.
NextStartup == EnvironmentStartup \/ Startup \/ EngineStartup \/ ShutdownStartup

SpecStartup == InitStartup /\ [][NextStartup]_vars


\* ---------------------------------------------- Unbond with its fee rate
\* Fee rates given to the client, and rates the fee estimator returns.
ClientFeeRates == {-1, 0, 1, MinFeePerKb - 1, MinFeePerKb, MinFeePerKb + 1}

Estimates == {MinFeePerKb - 1, MinFeePerKb, MinFeePerKb + 1}

\* A daemon over a store that holds an owned record sent to the coordinator,
\* whose user asks to unbond it with the fee rate req.feeRate while the fee
\* estimator returns req.estimate.
InitFee ==
    /\ store = [h \in Hashes |-> IF h \in Staked THEN Stored(SENT_TO_BABYLON, FALSE, StakedAt, "none")
                                  ELSE NoRecord]
    /\ btc = [h \in Hashes |-> IF h \in Staked THEN Tx(StakedAt, TxNotFound, TxNotFound)
                                ELSE Tx(TxNotFound, TxNotFound, TxNotFound)]
    /\ height = StartHeight
    /\ coord = [h \in Hashes |-> Delegation(h \in Staked, "none", FALSE)]
    /\ app = NewApp
    /\ rec = NewRec
    /\ tasks = NewTasks
    /\ chans = NewChans
    /\ calls = NewCalls
    /\ \E f \in ClientFeeRates, e \in Estimates :
           ghost = [dumped |-> Staked, bcast |-> Staked, spendDue |-> {}, timedOut |-> {},
                    req |-> [feeRate |-> f, estimate |-> e]]

NextFee ==
    \/ StartupStop
    \/ checkTransactionsStatus_onBabylon
    \/ \E c \in Callers, h \in Hashes, ok \in BOOLEAN :
           Unbond_call(c, h, ghost.req.feeRate, ghost.req.estimate, ok)
    \/ \E c \in Callers, ok \in BOOLEAN : handleSentToBabylon_unbonding(c, ok)
    \/ handleStaking_unbondingRequestConfirm
    \/ \E c \in Callers : Call_reply(c)

SpecFee == InitFee /\ [][NextFee]_vars


\* ------------------------------------- the first loop with its parameters
\* confirmation_blocks the coordinator may report
ConfirmationDepths == 1..3

\* A daemon started over a store that holds an owned record in SENT_TO_BTC,
\* where the chain has HEIGHT blocks, the wallet reports the staking
\* transaction in the mempool or in a block, and the coordinator's
\* parameters have confirmation_blocks = req.k.
InitHint ==
    /\ store = [h \in Hashes |-> IF h \in Staked THEN Stored(SENT_TO_BTC, FALSE, 0, "none")
                                  ELSE NoRecord]
    /\ height \in 1..StartHeight + 1
    /\ \E stk \in {TxInMemPool} \cup (1..height) :
           btc = [h \in Hashes |-> IF h \in Staked THEN Tx(stk, TxNotFound, TxNotFound)
                                   ELSE Tx(TxNotFound, TxNotFound, TxNotFound)]
    /\ coord = [h \in Hashes |-> Delegation(FALSE, "none", FALSE)]
    /\ app = NewApp
    /\ rec = NewRec
    /\ tasks = NewTasksHints
    /\ chans = NewChans
    /\ calls = NewCalls
    /\ \E k \in ConfirmationDepths :
           ghost = [dumped |-> Staked, bcast |-> Staked, spendDue |-> {}, timedOut |-> {},
                    req |-> [k |-> k]]

NextHint ==
    \/ StartupStop
    \/ MineBlock
    \/ handleNewBlocks
    \/ checkTransactionsStatus_sentToBtc_params(ghost.req.k)
    \/ handleStaking_confirmation_startup

SpecHint == InitHint /\ [][NextHint]_vars

\* ------------------------------------------------ the scan of the store
\* The three work lists of checkTransactionsStatus, in the order of their
\* appends; an entry of transactionsOnBabylon is a stakingDbInfo.
NoWork ==
    [transactionsSentToBtc |-> <<>>, transactionConfirmedOnBtc |-> <<>>,
     transactionsOnBabylon |-> <<>>]

stakingDbInfo(h, state) == [stakingTxHash |-> h, stakingTxState |-> state]

\* A reset hook that leaves the lists as they are.
reset_keeps(work) == work

\* reset: the closure that makes the three lists anew.
reset(work) == NoWork

\* The function passed to ScanTrackedTransactions, called on the record under
\* H: the switch on tx.State.
visit(work, h, state) ==
    IF state = SENT_TO_BTC
    THEN [work EXCEPT !.transactionsSentToBtc = Append(@, h)]
    ELSE IF state = CONFIRMED_ON_BTC
    THEN [work EXCEPT !.transactionConfirmedOnBtc = Append(@, h)]
    ELSE IF state \in {SENT_TO_BABYLON, UNBONDING_STARTED, UNBONDING_SIGNATURES_RECEIVED}
    THEN [work EXCEPT !.transactionsOnBabylon = Append(@, stakingDbInfo(h, state))]
    ELSE work

\* The traversal calling visit on the records under the keys from..to.
RECURSIVE Traverse(_, _, _, _)
Traverse(work, s, from, to) ==
    IF from > to THEN work
    ELSE Traverse(IF s[from].state = ABSENT THEN work ELSE visit(work, from, s[from].state),
                  s, from + 1, to)

\* The traversal restarted after restarts[1] records, then after restarts[2]
\* records, and so on, each time through the reset hook, and then run to
\* its end.
RECURSIVE Scan(_, _, _)
Scan(work, s, restarts) ==
    IF restarts = <<>> THEN Traverse(work, s, 1, NumTx)
    ELSE Scan(reset(Traverse(work, s, 1, Head(restarts))), s, Tail(restarts))

\* txTracker.ScanTrackedTransactions(visit, reset) over the lists as declared.
ScanTrackedTransactions(s, restarts) == Scan(NoWork, s, restarts)

Range(q) == {q[i] : i \in 1..Len(q)}

\* The state under which the lists hold H, ABSENT when they do not.
Listed(work, h) ==
    IF h \in Range(work.transactionsSentToBtc) THEN SENT_TO_BTC
    ELSE IF h \in Range(work.transactionConfirmedOnBtc) THEN CONFIRMED_ON_BTC
    ELSE IF \E e \in Range(work.transactionsOnBabylon) : e.stakingTxHash = h
    THEN (CHOOSE e \in Range(work.transactionsOnBabylon) : e.stakingTxHash = h).stakingTxState
    ELSE ABSENT

\* checkTransactionsStatus up to its first loop, where the traversal of the
\* store restarts as RESTARTS says; the lists are kept in ghost.req.work.
checkTransactionsStatus_scan_restarts(restarts) ==
    LET work == ScanTrackedTransactions(store, restarts)
        snap == [h \in Hashes |-> Listed(work, h)]
    IN  /\ Reconciling
        /\ rec.pc = "scan"
        /\ RecGoes(Loop1(snap, transactionsSentToBtc(snap)))
        /\ ghost' = [ghost EXCEPT !.req.work = work]
        /\ UNCHANGED <<store, btc, height, coord, tasks, chans, calls>>

\* the numbers of records after which the traversal may restart
ScanRestarts == {<<>>, <<0>>, <<1>>, <<2>>, <<1, 2>>, <<2, 1>>}

\* NewStakerAppFromDeps over a store some earlier run filled, where the
\* traversal of the store will restart as req.restarts says.
InitScan ==
    /\ \E left \in [Hashes -> Leftovers] :
           /\ store = [h \in Hashes |-> left[h].s]
           /\ btc = [h \in Hashes |-> left[h].b]
           /\ coord = [h \in Hashes |-> left[h].c]
           /\ \E r \in ScanRestarts :
                  LET owned == {h \in Hashes : left[h].s.state # ABSENT /\ ~left[h].s.watched}
                  IN  ghost = [dumped |-> owned, bcast |-> owned, spendDue |-> {}, timedOut |-> {},
                               req |-> [restarts |-> r, work |-> NoWork]]
    /\ height = StartHeight
    /\ app = NewApp
    /\ rec = NewRec
    /\ tasks = NewTasks
    /\ chans = NewChans
    /\ calls = NewCalls

NextScan ==
    \/ Start_begin
    \/ Start_tip
    \/ checkTransactionsStatus_scan_restarts(ghost.req.restarts)
    \/ checkTransactionsStatus_sentToBtc
    \/ checkTransactionsStatus_confirmedOnBtc
    \/ checkTransactionsStatus_onBabylon
    \/ handleStaking_confirmation_startup
    \/ handleStaking_delegationResponse_startup
    \/ handleStaking_unbondingRequestConfirm_startup

SpecScan == InitScan /\ [][NextScan]_vars

\* ------------------------------------ two users of one staking transaction
\* users who call the daemon at the same time
NumClients == 2
Clients == 1..NumClients

\* A daemon over a store that holds an owned record sent to the coordinator,
\* called by two users at once.
InitRace ==
    /\ store = [h \in Hashes |-> IF h \in Staked THEN Stored(SENT_TO_BABYLON, FALSE, StakedAt, "none")
                                  ELSE NoRecord]
    /\ btc = [h \in Hashes |-> IF h \in Staked THEN Tx(StakedAt, TxNotFound, TxNotFound)
                                ELSE Tx(TxNotFound, TxNotFound, TxNotFound)]
    /\ height = StartHeight
    /\ coord = [h \in Hashes |-> Delegation(h \in Staked, "none", FALSE)]
    /\ app = NewApp
    /\ rec = NewRec
    /\ tasks = NewTasks
    /\ chans = NewChans
    /\ calls = [c \in Clients |-> IdleCall]
    /\ ghost = [dumped |-> Staked, bcast |-> Staked, spendDue |-> {}, timedOut |-> {}]

\* Every wallet, notifier and coordinator call succeeds and every request is
\* well formed; the users unbond and spend as they please.
NextRace ==
    \/ StartupStop
    \/ checkTransactionsStatus_onBabylon
    \/ MineBlock
    \/ handleNewBlocks
    \/ \E c \in Clients, h \in Staked : UnbondStaking_call(c, h, MinFeePerKb, TRUE)
    \/ \E h \in Staked : SpendStake(h, TRUE, TRUE)
    \/ \E c \in Clients : Call_reply(c)
    \/ \E c \in Clients : handleSentToBabylon_unbonding(c, TRUE)
    \/ handleStaking_unbondingRequestConfirm
    \/ \E h \in Staked : waitForSpendConfirmation_confirmed(h)
    \/ \E h \in Staked : handleStaking_spendConfirmation(h)

SpecRace == InitRace /\ [][NextRace]_vars


\* ------------------------------------ many confirmations at the same time
\* Capacity of sendDelegationRequestChan in the runs below, in place of
\* maxNumPendingDelegations, and the number of staking transactions that
\* reach their confirmation depth together: two more than the capacity.
PendingCapacity == 1
NumDelegations == PendingCapacity + 2
Delegations == 1..NumDelegations

\* A running daemon, Start over, whose users have staked NumDelegations
\* transactions: each has its record in SENT_TO_BTC and its waiter, and all
\* of them are in a block with the confirmations the waiters asked for.
InitQueue ==
    /\ store = [h \in Delegations |-> Stored(SENT_TO_BTC, FALSE, 0, "none")]
    /\ btc = [h \in Delegations |-> Tx(StakedAt, TxNotFound, TxNotFound)]
    /\ height = StartHeight
    /\ coord = [h \in Delegations |-> Delegation(FALSE, "none", FALSE)]
    /\ app = [NewApp EXCEPT !.start = "done", !.engine = "run", !.tipLoop = "run",
                            !.best = StartHeight, !.nStart = 1, !.started = 1, !.spawned = 1]
    /\ rec = RecEnd
    /\ tasks = [t \in {<<kp[1], kp[2], h>> : kp \in TaskPcs, h \in Delegations}
                      \cup {<<k, "ntfn", h>> : k \in NtfnKinds, h \in Delegations} |->
                  IF t[1] = "stakeWait" /\ t[2] \in {"wait", "ntfn"} THEN 1 ELSE 0]
    /\ chans = [NewChans EXCEPT !.sender.pc = "idle"]
    /\ calls = NewCalls
    /\ ghost = [dumped |-> Delegations, bcast |-> Delegations, spendDue |-> {}, timedOut |-> {}]

\* The waiters deliver their confirmations, the engine queues the requests
\* and the sender loop submits them; every submission succeeds.
NextQueue ==
    \/ \E h \in Delegations : waitForStakingTxConfirmation_confirmed(h)
    \/ \E h \in Delegations : handleStaking_confirmation_capacity(h, PendingCapacity)
    \/ sendDelegationWithTxToBabylon_sent(PendingCapacity)
    \/ handleSentToBabylon_delegation(TRUE)
    \/ handleStaking_delegationResponse

SpecQueue == InitQueue /\ [][NextQueue]_vars


\* --------------------------------- a start over a store in use, with users
\* NewStakerAppFromDeps over a store in which an earlier run left a record
\* under the second key, while the users of this run stake, unbond and spend
\* under the first.
\* The leftovers for which the reconciler hands an event to the engine: a
\* confirmation, a delegation response or an unbonding confirmation.
FrameLeftovers ==
    {l \in Leftovers :
        /\ ~l.s.watched
        /\ l.b.stk = StakedAt
        /\ \/ l.s.state = SENT_TO_BTC
           \/ l.s.state = CONFIRMED_ON_BTC /\ l.c.del
           \/ l.s.state = SENT_TO_BABYLON /\ l.c.undel = "d"}

InitFrame ==
    /\ \E left \in FrameLeftovers :
           /\ store = [h \in Hashes |-> IF h \in Staked THEN NoRecord ELSE left.s]
           /\ btc = [h \in Hashes |-> IF h \in Staked THEN Tx(TxNotFound, TxNotFound, TxNotFound)
                                       ELSE left.b]
           /\ coord = [h \in Hashes |-> IF h \in Staked THEN Delegation(FALSE, "none", FALSE)
                                         ELSE left.c]
           /\ LET owned == {h \in Hashes \ Staked : left.s.state # ABSENT /\ ~left.s.watched}
              IN  ghost = [dumped |-> owned, bcast |-> owned, spendDue |-> {}, timedOut |-> {}]
    /\ height = StartHeight
    /\ app = NewApp
    /\ rec = NewRec
    /\ tasks = NewTasks
    /\ chans = NewChans
    /\ calls = NewCalls

NextFrame == EnvironmentStartup \/ Startup \/ EngineStop \/ CallsStop

SpecFrame == InitFrame /\ [][NextFrame]_vars


\* ================================================================== claims
\* The edges of the lifecycle, with the creation of a record as the first one.
Edges ==
    { <<ABSENT, SENT_TO_BTC>>,
      <<SENT_TO_BTC, CONFIRMED_ON_BTC>>,
      <<CONFIRMED_ON_BTC, SENT_TO_BABYLON>>,
      <<SENT_TO_BABYLON, SPENT_ON_BTC>>,
      <<SENT_TO_BABYLON, UNBONDING_STARTED>>,
      <<UNBONDING_STARTED, UNBONDING_SIGNATURES_RECEIVED>>,
      <<UNBONDING_SIGNATURES_RECEIVED, UNBONDING_CONFIRMED_ON_BTC>>,
      <<UNBONDING_CONFIRMED_ON_BTC, SPENT_ON_BTC>> }

\* C1: whatever the users, the chain, the coordinator and restarts do, every
\* write to a record's state follows one edge of the lifecycle: a record is
\* created in SENT_TO_BTC and then only moves forward along
\* SENT_TO_BTC -> CONFIRMED_ON_BTC -> SENT_TO_BABYLON ->
\* {SPENT_ON_BTC | UNBONDING_STARTED -> UNBONDING_SIGNATURES_RECEIVED ->
\* UNBONDING_CONFIRMED_ON_BTC -> SPENT_ON_BTC}; no step goes back or skips.
C1_OnlyLifecycleEdges ==
    [][\A h \in Hashes :
          \/ store'[h].state = store[h].state
          \/ <<store[h].state, store'[h].state>> \in Edges]_vars

\* C1 witness: a record went the whole unbonding path and was spent from the
\* unbonding output, with a restart on the way or not.
C1_Witness ==
    \E h \in Hashes : store[h].state = SPENT_ON_BTC /\ store[h].unbIncl > 0

\* A waiter for the confirmation of H's spend transaction is running.
SpendWaiter(h) == tasks[<<"spendWait", "wait", h>>] + tasks[<<"spendWait", "send", h>>] > 0

\* C2: restart equivalence for a record in SENT_TO_BABYLON or
\* UNBONDING_CONFIRMED_ON_BTC whose spend transaction is broadcast and awaits
\* its confirmations.  In the run with no restart a waiter hands the
\* confirmation to the engine and the record ends in SPENT_ON_BTC; for the
\* restarted run to end in the same state, once Start has returned a waiter
\* must again be running for every spend confirmation that is still due.
C2_RestartKeepsSpendWaiter ==
    (Alive /\ app.start = "done") => \A h \in ghost.spendDue : SpendWaiter(h)

\* C3: for a record with watched = true the daemon never broadcasts the
\* staking transaction and never asks the wallet for the private key of its
\* staker address, in any execution, restarts included.
C3_WatchedKeyNeverTouched ==
    \A h \in Hashes : store[h].watched => h \notin ghost.bcast /\ h \notin ghost.dumped

\* C4: after Stop has returned no helper goroutine is still running: the
\* waiters for staking and spend confirmations, the signature pollers and the
\* unbonding send/wait tasks have all exited, as have the three loops.
C4_StopJoinsEveryHelper ==
    app.stop = "done" =>
        /\ NoTask
        /\ app.engine # "run" /\ app.tipLoop # "run"
        /\ chans.sender.pc \in {"off", "exit"}

\* The engine has taken the staking request of call c off stakingRequestChan.
Dequeued(c) ==
    /\ calls[c].kind \in {"stake", "watch"}
    /\ calls[c].pc = "wait" \/ (calls[c].pc = "ret" /\ calls[c].rep # "none")

\* C5: for every staking request the engine has dequeued it has written
\* exactly one value, counting the request's success channel and error
\* channel together, whichever path the handler took (broadcast failure, add
\* failure, watch-registration failure, success); before that it wrote none.
C5_ExactlyOneReply ==
    \A c \in Callers :
        /\ Dequeued(c) => calls[c].nrep = 1
        /\ calls[c].pc = "send" => calls[c].nrep = 0

\* C5 witness: a request answered on the failure path after the insert: the
\* record is stored, no waiter runs for it and the caller holds one error.
C5_Witness ==
    \E c \in Callers :
        /\ Dequeued(c) /\ calls[c].pc = "wait" /\ calls[c].rep = "err" /\ calls[c].nrep = 1
        /\ store[calls[c].h].state = SENT_TO_BTC
        /\ tasks[<<"stakeWait", "wait", calls[c].h>>] = 0
        /\ tasks[<<"stakeWait", "send", calls[c].h>>] = 0

\* C6: a StakeFunds, WatchStaking or UnbondStaking call that is in progress
\* when quit fires eventually returns.  A call blocked in the send of its
\* request has no quit branch, so it can only return if the loop that
\* receives the request is still there: stated on finite runs, no call waits
\* at its send after the receiving loop has exited.
C6_CallNeverLeftAtSend ==
    \A c \in Callers :
        calls[c].pc = "send" =>
            /\ calls[c].kind \in {"stake", "watch"} => app.engine # "exit"
            /\ calls[c].kind = "unbond" => chans.sender.pc # "exit"

\* C7: the reconciler has completed (Start has returned) before any user
\* staking or unbonding request is taken off its request channel: no request
\* is dequeued while checkTransactionsStatus is scanning or applying its work.
C7_NoRequestBeforeReconciled ==
    [][\A c \in Callers :
          (calls[c].pc = "send" /\ calls'[c].pc = "wait") => app.start = "done"]_vars

\* C8: at most one confirmation event is applied to a record: the inclusion
\* height is written and the state set to CONFIRMED_ON_BTC only from
\* SENT_TO_BTC, and a confirmation event that finds the record in
\* CONFIRMED_ON_BTC or later is refused and leaves the whole store as it was.
C8_OneConfirmationApplied ==
    [][/\ \A h \in Hashes :
              store[h].state # SENT_TO_BTC =>
                  /\ store'[h].incl = store[h].incl
                  /\ store'[h].state = CONFIRMED_ON_BTC => store[h].state = CONFIRMED_ON_BTC
       /\ (app.fatal = "none" /\ app'.fatal = "confirmation") => store' = store]_vars

\* C8 witness: a second confirmation event was delivered for a record already
\* past SENT_TO_BTC and the engine refused it.
C8_Witness ==
    /\ app.fatal = "confirmation"
    /\ \E h \in Hashes : store[h].state \notin {ABSENT, SENT_TO_BTC} /\ store[h].incl > 0

\* C9: after a stop between SubmitUndelegation and SetTxUnbondingStarted, once
\* the restarted daemon has finished Start (and is not being stopped), every
\* record whose undelegation the coordinator reports has left SENT_TO_BABYLON
\* for UNBONDING_STARTED, with no user request.
C9_UndelegationConverges ==
    (Alive /\ ~app.quit /\ app.start = "done") =>
        \A h \in Hashes : coord[h].undel # "none" => store[h].state # SENT_TO_BABYLON

\* C10: UnbondStaking on a watched record returns "cannot unbond watched
\* transaction" whatever the state of the record and the fee rate; the call
\* sends nothing, leaves the wallet key alone and leaves the store unchanged.
C10_UnbondWatchedRejected ==
    [][\A c \in Callers, h \in Hashes :
          ( /\ SlotFree(c) /\ calls'[c] # calls[c]
            /\ calls'[c].kind = "unbond" /\ calls'[c].h = h
            /\ store[h].watched )
          => /\ calls'[c] = Returned("unbond", h, "errWatched")
             /\ store' = store /\ coord' = coord /\ chans' = chans /\ ghost' = ghost]_vars

\* C10 witness: the call was refused for a watched record in SENT_TO_BABYLON,
\* the one state in which an owned record may be unbonded.
C10_Witness ==
    \E c \in Callers, h \in Hashes :
        /\ calls[c] = Returned("unbond", h, "errWatched")
        /\ store[h].watched /\ store[h].state = SENT_TO_BABYLON

\* C11: UnbondStaking on an unknown H, or on a record whose state is not
\* SENT_TO_BABYLON (SENT_TO_BTC, CONFIRMED_ON_BTC, UNBONDING_STARTED or any
\* later state), returns an error; the call sends no unbonding request, so no
\* undelegation reaches the coordinator, and the store is left unchanged.
C11_UnbondWrongStateRejected ==
    [][\A c \in Callers, h \in Hashes :
          ( /\ SlotFree(c) /\ calls'[c] # calls[c]
            /\ calls'[c].kind = "unbond" /\ calls'[c].h = h
            /\ store[h].state # SENT_TO_BABYLON )
          => /\ calls'[c].pc = "ret"
             /\ calls'[c].res \in {"errNotFound", "errWatched", "errState"}
             /\ store' = store /\ coord' = coord /\ chans' = chans]_vars

\* C11 witness: the call was refused for an owned record whose unbonding has
\* already started, and the coordinator holds the one undelegation of it.
C11_Witness ==
    \E c \in Callers, h \in Hashes :
        /\ calls[c] = Returned("unbond", h, "errState")
        /\ ~store[h].watched /\ store[h].state = UNBONDING_STARTED
        /\ coord[h].undel = "d"

\* C12: when the 2-hour timeout of a spend-confirmation helper fires, the
\* helper exits without sending any event and without touching the store,
\* and the engine writes SPENT_ON_BTC only on the event of a helper that saw
\* the confirmation: with no such helper left, a record whose helper timed
\* out is not moved to SPENT_ON_BTC, even when the spend transaction gets
\* its 3 confirmations after the timeout.
C12_SpendTimeoutIsSilent ==
    [][\A h \in Hashes :
          /\ (h \in ghost'.timedOut /\ h \notin ghost.timedOut) =>
                 /\ store' = store
                 /\ tasks'[<<"spendWait", "send", h>>] = tasks[<<"spendWait", "send", h>>]
                 /\ tasks'[<<"spendWait", "wait", h>>] = tasks[<<"spendWait", "wait", h>>] - 1
          /\ (store'[h].state = SPENT_ON_BTC /\ store[h].state # SPENT_ON_BTC) =>
                 /\ tasks[<<"spendWait", "send", h>>] > 0
                 /\ tasks'[<<"spendWait", "send", h>>] = tasks[<<"spendWait", "send", h>>] - 1
          /\ h \in ghost.timedOut => store'[h].state # SPENT_ON_BTC]_vars

\* C12 witness: the helper of H timed out, the spend transaction then reached
\* its 3 confirmations, and the record is still in SENT_TO_BABYLON.
C12_Witness ==
    \E h \in Hashes :
        /\ h \in ghost.timedOut /\ ~SpendWaiter(h)
        /\ Confs(btc[h].spd) >= SpendStakeTxConfirmations
        /\ store[h].state = SENT_TO_BABYLON

\* C13: in every reachable state of the store the unbonding sub-record of a
\* record is absent while the record is in SENT_TO_BTC, CONFIRMED_ON_BTC or
\* SENT_TO_BABYLON, and present in UNBONDING_STARTED,
\* UNBONDING_SIGNATURES_RECEIVED and UNBONDING_CONFIRMED_ON_BTC, and in
\* SPENT_ON_BTC when the record came there through the unbonding branch.
C13_UnbondingDataPresence ==
    \A h \in Hashes :
        /\ store[h].state \in {ABSENT, SENT_TO_BTC, CONFIRMED_ON_BTC, SENT_TO_BABYLON} =>
               store[h].unb = "none" /\ store[h].unbIncl = 0
        /\ store[h].state \in {UNBONDING_STARTED, UNBONDING_SIGNATURES_RECEIVED,
                               UNBONDING_CONFIRMED_ON_BTC} => store[h].unb # "none"
        /\ (store[h].state = SPENT_ON_BTC /\ store[h].unbIncl > 0) => store[h].unb # "none"
        /\ (store[h].state = SPENT_ON_BTC /\ store[h].unbIncl = 0) => store[h].unb = "none"

\* C13 witness: a record went through the unbonding branch: its unbonding
\* transaction is confirmed on Bitcoin and its unbonding data is stored.
C13_Witness ==
    \E h \in Hashes :
        /\ store[h].state = UNBONDING_CONFIRMED_ON_BTC
        /\ store[h].unb = "d" /\ store[h].unbIncl > 0

\* C14: whenever the engine writes an inclusion height (SetTxConfirmed or
\* SetTxUnbondingConfirmedOnBtc), the height it writes is at most the value
\* held by the current-best-height cell at that moment, however the steps of
\* the tip handler interleave with the delivery of confirmations.
C14_InclusionNotAboveBest ==
    [][\A h \in Hashes :
          /\ store'[h].incl # store[h].incl => store'[h].incl <= app.best
          /\ store'[h].unbIncl # store[h].unbIncl => store'[h].unbIncl <= app.best]_vars

\* C15: the store holds one record per staking tx hash H; a record that
\* exists is there in every later state, still owned or still watched as it
\* was created, and a second staking request for the same H is answered with
\* an error and neither replaces nor resets the record.
C15_RecordKeptOnce ==
    [][\A h \in Hashes :
          store[h].state # ABSENT =>
              /\ store'[h].state # ABSENT
              /\ store'[h].watched = store[h].watched
              /\ \A c \in Callers :
                     ( /\ calls[c].pc = "send" /\ calls'[c].pc = "wait"
                       /\ calls[c].kind \in {"stake", "watch"} /\ calls[c].h = h )
                     => store' = store /\ calls'[c].rep = "err" /\ tasks' = tasks]_vars

\* C15 witness: a second request for a watched H that was already sent to
\* the coordinator was refused and the record is as it was.
C15_Witness ==
    \E c \in Callers :
        /\ calls[c].kind = "watch" /\ calls[c].pc \in {"wait", "ret"} /\ calls[c].rep = "err"
        /\ store[calls[c].h].state = SENT_TO_BABYLON
        /\ store[calls[c].h].watched /\ store[calls[c].h].incl > 0

\* The engine takes an event off one of its channels (the sender of the event
\* is a user call, a helper goroutine, the sender loop or the reconciler).
EngineReceives ==
    \/ \E c \in Callers : /\ calls[c].kind \in {"stake", "watch"}
                          /\ calls[c].pc = "send" /\ calls'[c].pc = "wait"
    \/ \E h \in Hashes, k \in {"stakeWait", "spendWait", "sigPoll", "unbond"} :
           tasks'[<<k, "send", h>>] < tasks[<<k, "send", h>>]
    \/ chans.sender.pc \in {"resp", "ack"} /\ chans'.sender.pc = "idle"
    \/ rec.pc \in {"conf", "resp", "ack"} /\ rec' # rec

\* C16: every write to the store, the insert of a record and every state
\* transition, is made by the engine loop while it handles an event; user
\* calls, the reconciler, the sender loop and the helper goroutines only
\* read the store and send events to the engine.
C16_OnlyEngineWrites ==
    [][store' # store => (EngineReady /\ EngineReceives)]_vars

\* C16 witness: the reconciler found the undelegation of a watched record on
\* the coordinator and the record moved to UNBONDING_STARTED: a transition no
\* user call asks for, written by the engine on the reconciler's event.
C16_Witness ==
    \E h \in Hashes :
        /\ store[h].watched /\ store[h].state = UNBONDING_STARTED
        /\ store[h].unb = "x" /\ app.start = "done"

\* Work in hand for H: a signature poller, an unbonding send/wait task, a
\* delegation request queued or being reported by the sender loop.
Polling(h) == tasks[<<"sigPoll", "poll", h>>] + tasks[<<"sigPoll", "send", h>>] > 0

Unbonding(h) ==
    tasks[<<"unbond", "bcast", h>>] + tasks[<<"unbond", "reg", h>>]
        + tasks[<<"unbond", "wait", h>>] + tasks[<<"unbond", "send", h>>] > 0

Submitting(h) ==
    \/ \E i \in 1..Len(chans.delQ) : chans.delQ[i].h = h
    \/ chans.sender.pc = "resp" /\ chans.sender.h = h

\* C17: once the reconciler has finished without a communication error (Start
\* returned nil), every stored record was classified and given its action,
\* whatever the reconciler did with a CONFIRMED_ON_BTC record before it:
\* a CONFIRMED_ON_BTC record in chain that the coordinator does not hold is
\* resubmitted, an UNBONDING_STARTED record has its signature poller and an
\* UNBONDING_SIGNATURES_RECEIVED record its unbonding send/wait task.
C17_EveryRecordReconciled ==
    (Alive /\ ~app.quit /\ app.start = "done") =>
        \A h \in Hashes :
            /\ (store[h].state = CONFIRMED_ON_BTC /\ btc[h].stk > 0 /\ ~coord[h].del)
                   => Submitting(h)
            /\ store[h].state = UNBONDING_STARTED => Polling(h)
            /\ store[h].state = UNBONDING_SIGNATURES_RECEIVED => Unbonding(h)

\* C18: the reconciler never regresses a record.  When the wallet reports
\* TxNotFound for a SENT_TO_BTC record, when the best height is below the
\* reported inclusion height, when the transaction of a CONFIRMED_ON_BTC
\* record is not in chain, or when the coordinator does not know the
\* delegation of a SENT_TO_BABYLON record, the step leaves the store as it
\* is, sends no event to the engine and starts no helper for the record, and
\* the reconciler goes on with the records that remain.
C18_SkippedRecordUntouched ==
    [][(Reconciling /\ rec.pc \in {"loop1", "loop2", "loop3"} /\ rec' # rec /\ Alive'
            /\ rec'.pc # "off") =>
          LET h == Min(rec.todo)
              rest == rec.todo \ {h}
              quiet == store' = store /\ tasks' = tasks /\ chans' = chans
          IN  /\ (rec.pc = "loop1" /\ (btc[h].stk = TxNotFound \/ app.best < btc[h].stk))
                     => quiet /\ rec' = Loop1(rec.snap, rest)
              /\ (rec.pc = "loop2" /\ ~coord[h].del /\ btc[h].stk <= 0)
                     => quiet /\ rec' = Loop2(rec.snap, rest)
              /\ (rec.pc = "loop3" /\ rec.snap[h] = SENT_TO_BABYLON /\ ~coord[h].del)
                     => quiet /\ rec' = Loop3(rec.snap, rest)]_vars

\* Confirmations of H's staking transaction counted at the best height the
\* daemon holds.
ConfsAtBest(h) == IF btc[h].stk > 0 /\ app.best >= btc[h].stk THEN app.best - btc[h].stk + 1 ELSE 0

\* The reconciler's first loop takes its immediate path for H: it sends the
\* confirmation event itself.
ImmediatePath(h) ==
    /\ Reconciling /\ rec.pc = "loop1" /\ Min(rec.todo) = h
    /\ rec'.pc = "conf" /\ rec'.cur = h

\* The reconciler's first loop deals with H in this step.
FirstLoopStep(h) ==
    /\ Reconciling /\ rec.pc = "loop1" /\ Min(rec.todo) = h
    /\ rec' # rec /\ rec'.pc # "off" /\ Alive'

C20_ConfirmThenSubmit ==
    /\ [][\A h \in Hashes :
             /\ (store[h].state = SENT_TO_BTC /\ store'[h].state = CONFIRMED_ON_BTC) =>
                    /\ store'[h].incl = btc[h].stk
                    /\ chans'.delQ = Append(chans.delQ, sendDelegationRequest(h, store'[h].incl))
             /\ (Len(chans'.delQ) > Len(chans.delQ) /\ chans'.delQ[Len(chans'.delQ)].h = h) =>
                    /\ store'[h].state = CONFIRMED_ON_BTC
                    /\ Len(chans'.delQ) = Len(chans.delQ) + 1]_vars
    /\ \A h \in Hashes :
           (store[h].state = CONFIRMED_ON_BTC /\ Submitting(h))
               ~> (store[h].state = SENT_TO_BABYLON \/ app.fatal = "delegation")

\* C20 witness: a watched record was confirmed, submitted with its inclusion
\* block and is in SENT_TO_BABYLON with the delegation on the coordinator.
C20_Witness ==
    \E h \in Hashes :
        /\ store[h].watched /\ store[h].state = SENT_TO_BABYLON
        /\ store[h].incl = btc[h].stk /\ coord[h].del
        /\ chans.delQ = <<>> /\ chans.sender.pc = "idle"

\* C21: when the response the engine takes off sendDelegationResponseChan
\* carries an error, the engine ends the process without calling
\* SetTxSentToBabylon: the record is and stays in CONFIRMED_ON_BTC, and the
\* process that ended writes nothing to the store afterwards.
C21_FailedSubmissionIsFatal ==
    [][/\ ( /\ EngineReady /\ chans.sender.pc = "resp" /\ ~chans.sender.ok
            /\ chans'.sender.pc = "idle" )
          => /\ app'.dead /\ app'.fatal = "delegation"
             /\ store[chans.sender.h].state = CONFIRMED_ON_BTC
             /\ store' = store
       /\ app.dead => store' = store]_vars

\* Unbonding send/wait tasks of H, by position and in all.
UnbondAt(pc, h) == tasks[<<"unbond", pc, h>>]

UnbondCount(h) ==
    UnbondAt("bcast", h) + UnbondAt("reg", h) + UnbondAt("wait", h) + UnbondAt("send", h)

\* C22: the unbonding send task of H stays in its broadcast loop until a
\* broadcast succeeds or quit fires, registers the watch only after a
\* successful broadcast and sends its event only once the unbonding
\* transaction has its 6 confirmations; a task that exits without its event
\* being received does so on quit and changes nothing; an event that is
\* received is the one event for H (the record is in
\* UNBONDING_SIGNATURES_RECEIVED and leaves it with the inclusion height of
\* the unbonding transaction); and a task that has broadcast and whose
\* transaction has its confirmations gets its event delivered unless quit
\* fires or the process ends.
C22_UnbondingSendTask ==
    /\ [](\A h \in Hashes :
             /\ UnbondCount(h) <= 1
             /\ UnbondAt("reg", h) + UnbondAt("wait", h) + UnbondAt("send", h) > 0
                    => btc[h].unb # TxNotFound
             /\ UnbondAt("send", h) > 0 => Confs(btc[h].unb) >= UnbondingTxConfirmations)
    /\ [][\A h \in Hashes :
             UnbondCount(h)' < UnbondCount(h) =>
                 \/ app.quit /\ store' = store /\ app' = app /\ chans' = chans
                 \/ /\ EngineReady /\ UnbondAt("send", h) > 0
                    /\ store[h].state = UNBONDING_SIGNATURES_RECEIVED
                    /\ store'[h].state = UNBONDING_CONFIRMED_ON_BTC
                    /\ store'[h].unbIncl = btc[h].unb]_vars
    /\ \A h \in Hashes :
           ( /\ UnbondAt("reg", h) + UnbondAt("wait", h) > 0
             /\ Confs(btc[h].unb) >= UnbondingTxConfirmations )
               ~> (store[h].state = UNBONDING_CONFIRMED_ON_BTC \/ app.quit \/ app.dead)

\* C22 witness: the task of H has delivered its event and is gone: the record
\* is in UNBONDING_CONFIRMED_ON_BTC with the height of the block that holds
\* the unbonding transaction, and nobody has called Stop.
C22_Witness ==
    \E h \in Hashes :
        /\ store[h].state = UNBONDING_CONFIRMED_ON_BTC /\ store[h].unbIncl = btc[h].unb
        /\ UnbondCount(h) = 0 /\ ~app.quit

\* C23: Start and Stop are one-shot.  Over any number and interleaving of
\* Start and Stop calls the body of Start runs at most once (the notifier is
\* started and the tip subscribed once), the three loops are spawned and the
\* reconciler is run at most once, and quit is closed at most once; a call of
\* Start after the first, or of Stop after the first, changes nothing of the
\* daemon: what the daemon is and does is what the first call alone made it.
C23_StartStopOneShot ==
    /\ [](app.started <= 1 /\ app.spawned <= 1 /\ app.closed <= 1)
    /\ [][/\ (app.nStart >= 1 /\ app'.nStart > app.nStart) =>
                 /\ app' = [app EXCEPT !.nStart = @ + 1]
                 /\ UNCHANGED <<store, btc, height, coord, rec, tasks, chans, calls, ghost>>
          /\ (app.nStop >= 1 /\ app'.nStop > app.nStop) =>
                 /\ app' = [app EXCEPT !.nStop = @ + 1]
                 /\ UNCHANGED <<store, btc, height, coord, rec, tasks, chans, calls, ghost>>
          /\ app'.spawned > app.spawned => app.started = 1 /\ app.spawned = 0
          /\ app'.quit # app.quit => app'.closed = 1 /\ app.closed = 0]_vars

\* C23 witness: Start and Stop were each called MaxCalls times; the body of
\* Start ran once, the loops were spawned once and quit was closed once.
C23_Witness ==
    /\ app.nStart = MaxCalls /\ app.nStop = MaxCalls
    /\ app.started = 1 /\ app.spawned = 1 /\ app.closed = 1

\* The effective slashing fee of the specification: the larger of the
\* coordinator's minimum slashing fee and the floor of 1000 sat.
EffectiveFee(coordinatorFee) == IF coordinatorFee > 1000 THEN coordinatorFee ELSE 1000

\* A StakeFunds call of c for H is made in this step, by a daemon that is
\* not shutting down.
StakeFundsStep(c, h) ==
    /\ SlotFree(c) /\ calls'[c] # calls[c] /\ ~app.quit
    /\ calls'[c].kind = "stake" /\ calls'[c].h = h

\* C24: every record added to the store through StakeFunds has a staking
\* amount strictly greater than the effective slashing fee
\* max(coordinator fee, 1000 sat).  A call whose amount is at most the
\* effective fee (amount = fee included) returns an error before any wallet
\* or store operation; a call whose amount is above it (amount = fee + 1
\* included) passes the check on the amount; with a coordinator fee of 500
\* the effective fee is 1000.
C24_AmountAboveSlashingFee ==
    [][\A c \in Callers, h \in Hashes :
          LET fee == EffectiveFee(ghost.req.p.MinSlashingTxFeeSat)
              amount == ghost.req.a.stakingAmount
          IN  /\ (StakeFundsStep(c, h) /\ amount <= fee) =>
                     /\ calls'[c] = Returned("stake", h, "errAmount")
                     /\ UNCHANGED <<store, btc, coord, ghost, chans, tasks>>
              /\ (StakeFundsStep(c, h) /\ amount > fee) => calls'[c].res # "errAmount"
              /\ ( /\ store[h].state = ABSENT /\ store'[h].state # ABSENT
                    /\ ~store'[h].watched ) => amount > fee]_vars

\* C24 witness: the coordinator reports a fee of 500 and a record was added
\* for a stake of 1001 sat, one more than the effective fee of 1000.
C24_Witness ==
    /\ ghost.req.p.MinSlashingTxFeeSat = 500 /\ ghost.req.a.stakingAmount = 1001
    /\ \E h \in Hashes : store[h].state = SENT_TO_BTC /\ ~store[h].watched

\* 2*finalization_timeout_blocks + confirmation_blocks as a number, split
\* into the multiples of 2^16 and the rest.
MinLockHi(p) ==
    2 * p.FinalizationTimeoutBlocks.hi + p.ConfirmationTimeBlocks.hi
        + (2 * p.FinalizationTimeoutBlocks.lo + p.ConfirmationTimeBlocks.lo) \div Limb

MinLockLo(p) == (2 * p.FinalizationTimeoutBlocks.lo + p.ConfirmationTimeBlocks.lo) % Limb

\* A lock of that many blocks or more.
LockIsEnough(p, lock) == MinLockHi(p) = 0 /\ lock >= MinLockLo(p)

\* C25: a StakeFunds call whose amount is in order is accepted as to its
\* lock exactly when the lock is at least
\* 2*finalization_timeout_blocks + confirmation_blocks, for every value of
\* the two uint32 parameters and every uint16 lock: the lock equal to the
\* minimum passes and one block less is refused; a refused call leaves the
\* store, the wallet and the coordinator untouched.
C25_MinimumLock ==
    [][\A c \in Callers, h \in Hashes :
          LET p == ghost.req.p
              lock == ghost.req.a.stakingTimeBlocks
              amountOk == ghost.req.a.stakingAmount > EffectiveFee(p.MinSlashingTxFeeSat)
          IN  /\ (StakeFundsStep(c, h) /\ amountOk /\ ~LockIsEnough(p, lock)) =>
                     /\ calls'[c] = Returned("stake", h, "errTime")
                     /\ UNCHANGED <<store, btc, coord, ghost, chans, tasks>>
              /\ (StakeFundsStep(c, h) /\ amountOk /\ LockIsEnough(p, lock)) =>
                     calls'[c].res # "errTime"]_vars

\* The fee rate of the specification for an unbond request: the rate given to
\* the client, or the estimator's rate when the client was given 0.
RequestedFeeRate == IF ghost.req.feeRate > 0 THEN ghost.req.feeRate ELSE ghost.req.estimate

\* An unbond request of c for the owned record H in SENT_TO_BABYLON reaches a
\* daemon that is not shutting down in this step.
UnbondStep(c, h) ==
    /\ SlotFree(c) /\ calls'[c] # calls[c] /\ ~app.quit
    /\ calls'[c].kind = "unbond" /\ calls'[c].h = h /\ calls'[c].res # "errClient"
    /\ store[h].state = SENT_TO_BABYLON /\ ~store[h].watched

\* C26: an unbond request on an owned record in SENT_TO_BABYLON with a fee
\* rate of 1000 sat/kB or more passes the fee check; one with 999 or less
\* returns the fee error and leaves store, coordinator, channels and wallet
\* as they were; when the client is given 0 the daemon gets no fee rate,
\* takes the estimator's rate, and that rate is held to the same floor.
C26_UnbondFeeFloor ==
    [][\A c \in Callers, h \in Hashes :
          /\ (UnbondStep(c, h) /\ RequestedFeeRate >= 1000) =>
                 \/ calls'[c] = Sending("unbond", h)
                 \/ calls'[c] = Returned("unbond", h, "err")
          /\ (UnbondStep(c, h) /\ RequestedFeeRate < 1000) =>
                 /\ calls'[c] = Returned("unbond", h, "errFee")
                 /\ UNCHANGED <<store, coord, chans, tasks, ghost>>]_vars

\* C26 witness: the client was given 0, the estimator returned 999 and the
\* request for an owned record in SENT_TO_BABYLON was refused for its fee.
C26_Witness ==
    /\ ghost.req.feeRate = 0 /\ ghost.req.estimate = 999
    /\ \E c \in Callers, h \in Hashes :
           /\ calls[c] = Returned("unbond", h, "errFee")
           /\ store[h].state = SENT_TO_BABYLON /\ ~store[h].watched

\* Goroutines that hand the engine a chain event (the confirmation of a
\* staking, spend or unbonding transaction) and are at their send.
ChainEventSenders ==
    {<<k, "send", h>> : k \in {"stakeWait", "spendWait", "unbond"}, h \in Hashes}

\* C27: the channels on which chain events reach the engine are buffered, so
\* a goroutine that delivers a confirmation does not wait at its send while
\* the engine is busy with another event: whenever the engine takes an
\* event and handles it, no goroutine that was at the send of a chain event
\* before the step is still there after it, unless it is the one served.
C27_ConfirmationSendNeverWaits ==
    [][(EngineReady /\ EngineReceives /\ rec' = rec /\ Alive') =>
          \A t \in ChainEventSenders : tasks[t] > 0 => tasks'[t] < tasks[t]]_vars

\* The goroutines of kind K for record H that hold a ConfirmationEvent:
\* those waiting on it and those at the send that follows it.
Holders(k, h) == tasks[<<k, "wait", h>>] + tasks[<<k, "send", h>>]

\* C28: a goroutine that holds a notifier registration cancels it on every
\* path on which it returns (confirmation delivered, quit, the timeout of
\* the spend waiter): the notifier holds no more registrations of a kind
\* for a record than there are goroutines of that kind still holding one.
C28_RegistrationCancelledOnExit ==
    \A k \in NtfnKinds, h \in Hashes : tasks[<<k, "ntfn", h>>] = Holders(k, h)

\* A goroutine of kind K is running for record H.
HelperRuns(k, h) == \E kp \in TaskPcs : kp[1] = k /\ tasks[<<k, kp[2], h>>] > 0

\* C29: the send with which a helper goroutine hands its event to the
\* engine also takes the quit signal, so once quit is closed every waiter for
\* a staking confirmation, every waiter for a spend confirmation and every
\* unbonding goroutine returns, even when the engine loop has returned.
C29_HelpersEndAfterQuit ==
    \A k \in NtfnKinds, h \in Hashes :
        (app.quit /\ HelperRuns(k, h)) ~> (~HelperRuns(k, h) \/ app.dead)

\* C30: the engine loop waits only in the receive of its select: the handling
\* of an event makes no call to the wallet and no registration with the
\* notifier.  Whenever the engine takes an event and handles it, no
\* transaction has been handed to the Bitcoin node and the notifier holds no
\* registration that it did not hold before.
C30_EngineOnlyReceives ==
    [][(EngineReady /\ EngineReceives /\ rec' = rec) =>
          /\ btc' = btc
          /\ \A n \in NtfnIds : tasks'[n] <= tasks[n]]_vars

\* C31: for an owned staking request the engine persists the record before
\* it broadcasts the staking transaction, so that at every moment after the
\* broadcast, a crash included, the store holds a record under H for the
\* reconciler to resume.
C31_PersistedBeforeBroadcast ==
    \A h \in Hashes : h \in ghost.bcast => store[h].state # ABSENT

\* C32: for a record in SENT_TO_BTC whose staking transaction the wallet
\* reports in a block, at a depth below confirmation_blocks, the reconciler
\* registers the watch with the height of that block as its height hint; for
\* one reported in the mempool it registers the watch with the best height.
C32_WatchFromInclusionHeight ==
    [][\A h \in Hashes :
          tasks'[<<"stakeWait", "ntfn", h>>] > tasks[<<"stakeWait", "ntfn", h>>] =>
              tasks'[<<"stakeWait", "hint", h>>] =
                  IF btc[h].stk > 0 THEN btc[h].stk ELSE app.best]_vars

\* The reconciler's third loop takes up record H, which the scan found in
\* UNBONDING_SIGNATURES_RECEIVED, and the wallet and the notifier answer.
ResumesUnbonding(h) ==
    /\ Reconciling
    /\ rec.pc = "loop3"
    /\ rec' # rec
    /\ rec'.pc # "off"
    /\ Alive'
    /\ h = Min(rec.todo)
    /\ rec.snap[h] = UNBONDING_SIGNATURES_RECEIVED

\* C33: for a record found in UNBONDING_SIGNATURES_RECEIVED at startup the
\* reconciler starts the send-and-wait goroutine, with no registration of its
\* own, only when the wallet does not know the unbonding transaction; when
\* the transaction is in the mempool or in a block it starts no broadcast
\* and registers one watch, whose height hint is the inclusion height for a
\* transaction in a block and the best height otherwise, and starts one
\* waiting goroutine.  Either way at most one goroutine per record can
\* deliver the confirmation of the unbonding transaction.
C33_UnbondingResumedOnce ==
    /\ [][\A h \in Hashes : ResumesUnbonding(h) =>
            LET d(pc) == tasks'[<<"unbond", pc, h>>] - tasks[<<"unbond", pc, h>>]
            IN  IF btc[h].unb = TxNotFound
                THEN d("bcast") = 1 /\ d("wait") = 0 /\ d("ntfn") = 0
                ELSE /\ d("bcast") = 0 /\ d("wait") = 1 /\ d("ntfn") = 1
                     /\ tasks'[<<"unbond", "hint", h>>] =
                            IF btc[h].unb > 0 THEN btc[h].unb ELSE app.best]_vars
    /\ [](\A h \in Hashes : UnbondCount(h) <= 1)

\* The reconciler has registered the watch of an unbonding transaction that
\* was in a block below the best block the daemon knew.
C33_Witness ==
    \E h \in Hashes :
        /\ rec.snap[h] = UNBONDING_SIGNATURES_RECEIVED
        /\ tasks[<<"unbond", "ntfn", h>>] = 1
        /\ tasks[<<"unbond", "wait", h>>] = 1
        /\ tasks[<<"unbond", "hint", h>>] = btc[h].unb
        /\ tasks[<<"unbond", "hint", h>>] < app.best

\* The records the reconciler has still to take up.
Pending(r) ==
    IF r.pc \in {"loop1", "conf"}
    THEN r.todo \cup transactionConfirmedOnBtc(r.snap) \cup transactionsOnBabylon(r.snap)
    ELSE IF r.pc \in {"loop2", "resp"} THEN r.todo \cup transactionsOnBabylon(r.snap)
    ELSE IF r.pc \in {"loop3", "ack"} THEN r.todo
    ELSE {}

NoDuplicate(q) == \A i, j \in 1..Len(q) : q[i] = q[j] => i = j

\* C34: the scan of the store writes nothing to the store and sends nothing
\* to the engine; it only collects work, and when the traversal restarts the
\* reset hook clears what was collected.  After the scan each record is in
\* the collected work at most once, under the list of its state, and the
\* reconciler takes up each record at most once: a record it has taken up is
\* no longer pending, and no record becomes pending again.
C34_ScanCollectsOnce ==
    /\ [][(rec.pc = "scan" /\ rec'.pc \notin {"scan", "off"} /\ Alive') =>
            LET work == ghost'.req.work
            IN  /\ store' = store /\ chans' = chans /\ tasks' = tasks /\ calls' = calls
                /\ NoDuplicate(work.transactionsSentToBtc)
                /\ NoDuplicate(work.transactionConfirmedOnBtc)
                /\ NoDuplicate(work.transactionsOnBabylon)
                /\ \A h \in Hashes :
                       /\ h \in Range(work.transactionsSentToBtc) <=> store[h].state = SENT_TO_BTC
                       /\ h \in Range(work.transactionConfirmedOnBtc)
                              <=> store[h].state = CONFIRMED_ON_BTC
                       /\ stakingDbInfo(h, store[h].state) \in Range(work.transactionsOnBabylon)
                              <=> store[h].state \in {SENT_TO_BABYLON, UNBONDING_STARTED,
                                                      UNBONDING_SIGNATURES_RECEIVED}
                       /\ \A e \in Range(work.transactionsOnBabylon) :
                              e.stakingTxHash = h => e.stakingTxState = store[h].state
                /\ Pending(rec') = {h \in Hashes : Listed(work, h) # ABSENT}]_vars
    /\ [][(rec.pc \notin {"off", "scan"}) =>
            /\ Pending(rec') \subseteq Pending(rec)
            /\ (rec.pc \in {"loop1", "loop2", "loop3"} /\ rec' # rec)
                  => Min(rec.todo) \notin Pending(rec')]_vars

\* The traversal restarted at least once after it had visited a record, the
\* lists hold work of two kinds, and the reconciler has begun its loops.
C34_Witness ==
    /\ ghost.req.restarts # <<>>
    /\ \E i \in 1..Len(ghost.req.restarts) : ghost.req.restarts[i] > 0
    /\ Len(ghost.req.work.transactionsSentToBtc) > 0
    /\ Len(ghost.req.work.transactionsOnBabylon) > 0
    /\ rec.pc \in {"loop2", "loop3"}

\* C35: the state test of an unbond request and SetTxUnbondingStarted are one
\* step among the transitions of a record.  With two calls of UnbondStaking
\* for the same staking transaction in flight, an undelegation is submitted
\* to the coordinator only when none was submitted for it before, and the
\* engine takes an unbonding confirmation only for a record that is still
\* in SENT_TO_BABYLON.
C35_UnbondCheckedAndApplied ==
    /\ [][\A c \in DOMAIN calls :
            (calls[c].kind = "unbond" /\ calls[c].pc = "send" /\ calls'[c].pc = "wait")
                => coord[calls[c].h].undel = "none"]_vars
    /\ [][(chans.sender.pc = "ack" /\ chans'.sender.pc = "idle" /\ ~app.quit)
            => store[chans.sender.h].state = SENT_TO_BABYLON]_vars

\* C36: when the engine takes a spend confirmation for H, the record of H is
\* in SENT_TO_BABYLON or UNBONDING_CONFIRMED_ON_BTC: SetTxSpentOnBtc succeeds
\* and the engine does not reach its Fatalf, whatever calls of UnbondStaking
\* and SpendStake were made for H while the spend waited for its three
\* confirmations.
C36_SpendConfirmedInSpendableState ==
    [][\A h \in Hashes :
         (/\ EngineReady
          /\ ~app.quit
          /\ tasks[<<"spendWait", "send", h>>] > 0
          /\ tasks'[<<"spendWait", "send", h>>] < tasks[<<"spendWait", "send", h>>])
             => /\ store[h].state \in {SENT_TO_BABYLON, UNBONDING_CONFIRMED_ON_BTC}
                /\ store'[h].state = SPENT_ON_BTC
                /\ app'.fatal = "none"]_vars

\* The states of a record from UNBONDING_STARTED on.
UnbondingStartedOrLater ==
    {UNBONDING_STARTED, UNBONDING_SIGNATURES_RECEIVED, UNBONDING_CONFIRMED_ON_BTC, SPENT_ON_BTC}

\* C37: the hash of the unbonding transaction is written to the successChan
\* of an UnbondStaking request in the step in which the engine has moved the
\* record to UNBONDING_STARTED with the unbonding transaction of the request
\* and has started the goroutine that polls for the signatures; as long as
\* the caller holds that answer, the record is in UNBONDING_STARTED or in a
\* later state and keeps that unbonding transaction.
C37_UnbondAckAfterStarted ==
    /\ [][\A c \in DOMAIN calls :
            (calls[c].kind = "unbond" /\ calls[c].rep = "none" /\ calls'[c].rep = "ok")
                => LET h == calls[c].h
                   IN  /\ store[h].state = SENT_TO_BABYLON
                       /\ store'[h].state = UNBONDING_STARTED
                       /\ store'[h].unb = "d"
                       /\ tasks'[<<"sigPoll", "poll", h>>] = tasks[<<"sigPoll", "poll", h>>] + 1]_vars
    /\ [](\A c \in DOMAIN calls :
            (calls[c].kind = "unbond" /\ "ok" \in {calls[c].rep, calls[c].res})
                => /\ store[calls[c].h].state \in UnbondingStartedOrLater
                   /\ store[calls[c].h].unb = "d")

\* UnbondStaking has returned the unbonding transaction's hash and the
\* record has gone on to the signatures.
C37_Witness ==
    \E c \in DOMAIN calls :
        /\ calls[c].kind = "unbond"
        /\ calls[c].pc = "ret"
        /\ calls[c].res = "ok"
        /\ store[calls[c].h].state = UNBONDING_SIGNATURES_RECEIVED

\* C38: a staking request that is answered on its errChan leaves the store
\* as it was: the handler that writes the error has added no record for the
\* request's staking transaction, so no record stays in SENT_TO_BTC without
\* a confirmation watch and without a success answer.
C38_FailedRequestLeavesNoRecord ==
    [][\A c \in DOMAIN calls :
         (calls[c].kind \in {"stake", "watch"} /\ calls[c].rep = "none" /\ calls'[c].rep = "err")
             => store'[calls[c].h] = store[calls[c].h]]_vars

\* C39: the engine and the sender loop never wait for each other: the engine
\* is never inside its send on a full sendDelegationRequestChan while the
\* sender loop is inside its send of a response on sendDelegationResponseChan,
\* however many staking transactions are confirmed together.
C39_EngineAndSenderNeverBothBlocked ==
    ~(/\ Alive
      /\ ~app.quit
      /\ app.engine = "push"
      /\ Len(chans.delQ) >= PendingCapacity
      /\ chans.sender.pc = "resp")

\* An event on one of the engine's channels: its kind, the staking tx hash it
\* carries, and what else the handler reads from it.
EngineEvent(kind, h, block, data, ok) ==
    [kind |-> kind, h |-> h, block |-> block, data |-> data, ok |-> ok]

\* The events sent to the engine and not yet taken by it: by the users'
\* calls, the helper goroutines, the sender loop and the reconciler.
PendingEvents ==
    {EngineEvent("stakingRequest", calls[c].h, 0, calls[c].kind, TRUE) :
        c \in {c \in DOMAIN calls : calls[c].pc = "send" /\ calls[c].kind \in {"stake", "watch"}}}
    \cup {EngineEvent("confirmation", h, btc[h].stk, "none", TRUE) :
            h \in {h \in Hashes : tasks[<<"stakeWait", "send", h>>] > 0}}
    \cup {EngineEvent("confirmation", rec.cur, btc[rec.cur].stk, "none", TRUE) :
            x \in {x \in {0} : rec.pc = "conf"}}
    \cup {EngineEvent("delegationResponse", chans.sender.h, 0, "none", chans.sender.ok) :
            x \in {x \in {0} : chans.sender.pc = "resp"}}
    \cup {EngineEvent("delegationResponse", rec.cur, 0, "none", TRUE) :
            x \in {x \in {0} : rec.pc = "resp"}}
    \cup {EngineEvent("unbondingRequestConfirm", chans.sender.h, 0, "d", TRUE) :
            x \in {x \in {0} : chans.sender.pc = "ack"}}
    \cup {EngineEvent("unbondingRequestConfirm", rec.cur, 0, coord[rec.cur].undel, TRUE) :
            x \in {x \in {0} : rec.pc = "ack"}}
    \cup {EngineEvent("unbondingSignatures", h, 0, "none", TRUE) :
            h \in {h \in Hashes : tasks[<<"sigPoll", "send", h>>] > 0}}
    \cup {EngineEvent("unbondingConfirmedOnBtc", h, btc[h].unb, "none", TRUE) :
            h \in {h \in Hashes : tasks[<<"unbond", "send", h>>] > 0}}
    \cup {EngineEvent("spendConfirmation", h, 0, "none", TRUE) :
            h \in {h \in Hashes : tasks[<<"spendWait", "send", h>>] > 0}}

\* The store accepts the write the handler of e makes.
Accepted(s, e) ==
    CASE e.kind = "stakingRequest" -> AddOk(s, e.h)
      [] e.kind = "confirmation" -> SetTxConfirmedOk(s, e.h)
      [] e.kind = "delegationResponse" -> e.ok /\ SetTxSentToBabylonOk(s, e.h)
      [] e.kind = "unbondingRequestConfirm" -> SetTxUnbondingStartedOk(s, e.h)
      [] e.kind = "unbondingSignatures" -> SetTxUnbondingSignaturesReceivedOk(s, e.h)
      [] e.kind = "unbondingConfirmedOnBtc" -> SetTxUnbondingConfirmedOnBtcOk(s, e.h)
      [] e.kind = "spendConfirmation" -> SetTxSpentOnBtcOk(s, e.h)

\* The store after the handler of e has made its write.
Written(s, e) ==
    CASE e.kind = "stakingRequest" ->
             IF e.data = "watch" THEN AddWatchedTransaction(s, e.h) ELSE AddTransaction(s, e.h)
      [] e.kind = "confirmation" -> SetTxConfirmed(s, e.h, e.block)
      [] e.kind = "delegationResponse" -> SetTxSentToBabylon(s, e.h)
      [] e.kind = "unbondingRequestConfirm" -> SetTxUnbondingStarted(s, e.h, e.data)
      [] e.kind = "unbondingSignatures" -> SetTxUnbondingSignaturesReceived(s, e.h)
      [] e.kind = "unbondingConfirmedOnBtc" -> SetTxUnbondingConfirmedOnBtc(s, e.h, e.block)
      [] e.kind = "spendConfirmation" -> SetTxSpentOnBtc(s, e.h)

====
